---- MODULE Spec2Model ----
(***************************************************************************)
(* Model of the crypto_tracker portfolio accounting core                   *)
(* (services/metrics.py) and of the callers that feed it                    *)
(* (legacy_crypto_tracker.py).                                              *)
(*                                                                         *)
(* Conventions of the translation                                          *)
(*  - A Python float is an exact rational <<n, d>> with d > 0 and          *)
(*    gcd(n, d) = 1; rounding of IEEE doubles is not modelled.             *)
(*  - A Python dict is a TLA+ function whose DOMAIN is the set of keys     *)
(*    present; d.get(k) is Get(d, k) and yields None for an absent key.    *)
(*  - None is the empty tuple.                                             *)
(*  - Date strings and ids are sequences of character codes (ASCII), so    *)
(*    that Python's string comparison is the lexicographic order StrLt;    *)
(*    asset and type symbols are TLA+ strings.                             *)
(*  - An exception leaving a function is the result [exc |-> name].        *)
(***************************************************************************)
EXTENDS Integers, Sequences, FiniteSets, TLC

VARIABLES
    trades,     \* the list handed to the core by the caller
    call,       \* the last call made on the core: function, arguments, result
    ledger,     \* self.data["trades"] of the application
    proj_rows,  \* rows of the projections table (self.proj_tree)
    proj,       \* what the last run_projection_from_table did
    objects,    \* the dicts alive while calls of the core are in progress
    running,    \* the local variables of each call in progress
    form,       \* the add-trade form: asset_var, trade_type_var, type_combo["values"]
    uuids,      \* how many uuid4() values were drawn
    data_files, \* the JSON data files on disk
    price_cache, \* the dict of cached prices the application holds
    clock       \* datetime.now() of the price service: the user's file and the legacy file

vars == <<trades, call, ledger, proj_rows, proj, objects, running, form, uuids, data_files, price_cache, clock>>

None == <<>>

-----------------------------------------------------------------------------
(* Exact rational arithmetic standing for Python float arithmetic.         *)

Abs(x) == IF x < 0 THEN -x ELSE x

RECURSIVE GCD(_, _)
GCD(a, b) == IF b = 0 THEN a ELSE GCD(b, a % b)

Rat(n, d) ==
    LET g == GCD(Abs(n), Abs(d))
        s == IF d < 0 THEN -1 ELSE 1
    IN  <<(s * n) \div g, (s * d) \div g>>

R(n) == <<n, 1>>
Zero == R(0)

RAdd(a, b) == Rat(a[1] * b[2] + b[1] * a[2], a[2] * b[2])
RSub(a, b) == Rat(a[1] * b[2] - b[1] * a[2], a[2] * b[2])
RMul(a, b) == Rat(a[1] * b[1], a[2] * b[2])
RDiv(a, b) == Rat(a[1] * b[2], a[2] * b[1])
RLt(a, b) == a[1] * b[2] < b[1] * a[2]
RLe(a, b) == a[1] * b[2] <= b[1] * a[2]
RGt(a, b) == RLt(b, a)
RGe(a, b) == RLe(b, a)
Hundred == R(100)

-----------------------------------------------------------------------------
(* Python dict and string primitives.                                      *)

Get(d, k) == IF k \in DOMAIN d THEN d[k] ELSE None
GetOr(d, k, dflt) == IF k \in DOMAIN d THEN d[k] ELSE dflt
\* the dict without the keys in `missing`
Without(d, missing) == [k \in DOMAIN d \ missing |-> d[k]]
\* `x or 0` for a number or None
OrZero(x) == IF x = None \/ x = Zero THEN Zero ELSE x

RECURSIVE StrLt(_, _)
StrLt(a, b) ==
    IF b = <<>> THEN FALSE
    ELSE IF a = <<>> THEN TRUE
    ELSE IF Head(a) # Head(b) THEN Head(a) < Head(b)
    ELSE StrLt(Tail(a), Tail(b))

StrLe(a, b) == a = b \/ StrLt(a, b)

Front(s) == SubSeq(s, 1, Len(s) - 1)
Last(s) == s[Len(s)]

\* key=lambda x: x.get("date", "")
DateKey(t) == GetOr(t, "date", <<>>)

RECURSIVE InsertByDate(_, _)
InsertByDate(sorted, t) ==
    IF sorted = <<>> THEN <<t>>
    ELSE LET last == sorted[Len(sorted)]
         IN  IF StrLe(DateKey(last), DateKey(t))
             THEN Append(sorted, t)
             ELSE Append(InsertByDate(SubSeq(sorted, 1, Len(sorted) - 1), t), last)

\* list.sort / sorted with the date key: a stable sort
RECURSIVE SortByDateUpTo(_, _)
SortByDateUpTo(s, n) ==
    IF n = 0 THEN <<>> ELSE InsertByDate(SortByDateUpTo(s, n - 1), s[n])

\* Faulty variant: the list is replayed in the order given, without the sort.
SortByDate_unsorted(s) == s

SortByDate(s) == SortByDateUpTo(s, Len(s))

\* sum(...) of a sequence of numbers: added left to right, from 0
Sum(xs) ==
    LET acc[i \in 0..Len(xs)] == IF i = 0 THEN Zero ELSE RAdd(acc[i - 1], xs[i])
    IN  acc[Len(xs)]

\* t.get("type") and t.get("asset"), read for comparison with a symbol: asset and
\* type symbols are TLA+ strings, and an absent key compares unequal to all of them
TypeOf(t) == GetOr(t, "type", "")
AssetOf(t) == GetOr(t, "asset", "")

\* Faulty variant: a Holding is replayed like a BUY.
BuyTypes_with_holding == {"BUY", "Transfer", "Holding"}

\* trade.get("type") in ("BUY", "Transfer")
BuyTypes == {"BUY", "Transfer"}
IsBuyLike(t) == TypeOf(t) \in BuyTypes
IsSell(t) == TypeOf(t) = "SELL"

\* (t.get("total_value") or 0) + (t.get("fee") or 0)
ValuePlusFee(t) == RAdd(OrZero(Get(t, "total_value")), OrZero(Get(t, "fee")))
\* (t.get("total_value") or 0) - (t.get("fee") or 0)
ValueMinusFee(t) == RSub(OrZero(Get(t, "total_value")), OrZero(Get(t, "fee")))

-----------------------------------------------------------------------------
(* services/metrics.py: the three cost-basis replays.                      *)

NewLot(trade, qty, cost_per_unit) ==
    [quantity |-> qty, cost_per_unit |-> cost_per_unit,
     trade_id |-> Get(trade, "id"), date |-> DateKey(trade)]

\* the string "average" (trade_id and date of the synthetic lot)
AverageTag == <<97, 118, 101, 114, 97, 103, 101>>

EmptyRun == [lots |-> <<>>, total_cost |-> Zero, units_held |-> Zero, exc |-> "none"]

\* Faulty variant: the lot's unit cost includes the fee but total_cost does not.
lot_buy_fee_dropped(s, trade) ==
    LET qty == OrZero(Get(trade, "quantity"))
        total_val == ValuePlusFee(trade)
        cost_per_unit == IF qty # Zero THEN RDiv(total_val, qty) ELSE Zero
    IN  IF RGt(cost_per_unit, Zero) /\ RGt(qty, Zero)
        THEN [s EXCEPT !.lots = Append(@, NewLot(trade, qty, cost_per_unit)),
                       !.units_held = RAdd(@, qty),
                       !.total_cost = RAdd(@, OrZero(Get(trade, "total_value")))]
        ELSE s

\* the BUY/Transfer branch shared by the FIFO and the LIFO replay
lot_buy(s, trade) ==
    LET qty == OrZero(Get(trade, "quantity"))
        total_val == ValuePlusFee(trade)
        cost_per_unit == IF qty # Zero THEN RDiv(total_val, qty) ELSE Zero
    IN  IF RGt(cost_per_unit, Zero) /\ RGt(qty, Zero)
        THEN [s EXCEPT !.lots = Append(@, NewLot(trade, qty, cost_per_unit)),
                       !.units_held = RAdd(@, qty),
                       !.total_cost = RAdd(@, total_val)]
        ELSE s

\* Faulty variant: a lot larger than the remaining sell quantity is removed whole.
RECURSIVE fifo_consume_whole_lots(_, _, _)
fifo_consume_whole_lots(lots, total_cost, sell_qty) ==
    IF ~(RGt(sell_qty, Zero) /\ lots # <<>>)
    THEN [lots |-> lots, total_cost |-> total_cost]
    ELSE LET lot == lots[1]
             q == lot.quantity
         IN  IF RLe(q, sell_qty)
             THEN fifo_consume_whole_lots(Tail(lots),
                                          RSub(total_cost, RMul(q, lot.cost_per_unit)),
                                          RSub(sell_qty, q))
             ELSE fifo_consume_whole_lots(
                     Tail(lots),
                     RSub(total_cost, RMul(sell_qty, lot.cost_per_unit)),
                     Zero)

\* while sell_qty > 0 and lots: consume lots[0]
RECURSIVE fifo_consume(_, _, _)
fifo_consume(lots, total_cost, sell_qty) ==
    IF ~(RGt(sell_qty, Zero) /\ lots # <<>>)
    THEN [lots |-> lots, total_cost |-> total_cost]
    ELSE LET lot == lots[1]
             q == lot.quantity
         IN  IF RLe(q, sell_qty)
             THEN fifo_consume(Tail(lots),
                               RSub(total_cost, RMul(q, lot.cost_per_unit)),
                               RSub(sell_qty, q))
             ELSE fifo_consume(
                     <<[lot EXCEPT !.quantity = RSub(@, sell_qty)]>> \o Tail(lots),
                     RSub(total_cost, RMul(sell_qty, lot.cost_per_unit)),
                     Zero)

\* while sell_qty > 0 and lots: consume lots[-1]
RECURSIVE lifo_consume(_, _, _)
lifo_consume(lots, total_cost, sell_qty) ==
    IF ~(RGt(sell_qty, Zero) /\ lots # <<>>)
    THEN [lots |-> lots, total_cost |-> total_cost]
    ELSE LET n == Len(lots)
             lot == lots[n]
             q == lot.quantity
         IN  IF RLe(q, sell_qty)
             THEN lifo_consume(SubSeq(lots, 1, n - 1),
                               RSub(total_cost, RMul(q, lot.cost_per_unit)),
                               RSub(sell_qty, q))
             ELSE lifo_consume(
                     [lots EXCEPT ![n] = [lot EXCEPT !.quantity = RSub(@, sell_qty)]],
                     RSub(total_cost, RMul(sell_qty, lot.cost_per_unit)),
                     Zero)

\* one iteration of `for trade in asset_trades` of calculate_cost_basis_fifo
fifo_step(s, trade) ==
    IF IsBuyLike(trade) THEN lot_buy(s, trade)
    ELSE IF IsSell(trade) THEN
        LET sell_qty == OrZero(Get(trade, "quantity"))
            c == fifo_consume(s.lots, s.total_cost, sell_qty)
        IN  [s EXCEPT !.units_held = RSub(@, sell_qty),
                      !.lots = c.lots, !.total_cost = c.total_cost]
    ELSE s

\* one iteration of `for trade in asset_trades` of calculate_cost_basis_lifo
lifo_step(s, trade) ==
    IF IsBuyLike(trade) THEN lot_buy(s, trade)
    ELSE IF IsSell(trade) THEN
        LET sell_qty == OrZero(Get(trade, "quantity"))
            c == lifo_consume(s.lots, s.total_cost, sell_qty)
        IN  [s EXCEPT !.units_held = RSub(@, sell_qty),
                      !.lots = c.lots, !.total_cost = c.total_cost]
    ELSE s

\* one iteration of `for trade in asset_trades` of calculate_cost_basis_average
average_step(s, trade) ==
    IF IsBuyLike(trade) THEN
        [s EXCEPT !.units_held = RAdd(@, OrZero(Get(trade, "quantity"))),
                  !.total_cost = RAdd(@, ValuePlusFee(trade))]
    ELSE IF IsSell(trade) THEN
        LET sell_qty == OrZero(Get(trade, "quantity"))
            units_held == RSub(s.units_held, sell_qty)
        IN  IF RGt(units_held, Zero)
            THEN IF RAdd(units_held, sell_qty) = Zero
                 THEN [s EXCEPT !.units_held = units_held, !.exc = "ZeroDivisionError"]
                 ELSE [s EXCEPT !.units_held = units_held,
                                !.total_cost = RMul(units_held,
                                    RDiv(s.total_cost, RAdd(units_held, sell_qty)))]
            ELSE [s EXCEPT !.units_held = units_held, !.total_cost = Zero]
    ELSE s

\* asset_trades = [t for t in trades if t.get("asset") == asset]; asset_trades.sort(...)
asset_trades_sorted(trade_list, asset) ==
    LET OfAsset(t) == AssetOf(t) = asset
    IN  SortByDate(SelectSeq(trade_list, OfAsset))

\* the state of the loop after its first k iterations; an exception ends the loop
RECURSIVE run_loop(_, _, _)
run_loop(method, sorted, k) ==
    IF k = 0 THEN EmptyRun
    ELSE LET s == run_loop(method, sorted, k - 1)
         IN  IF s.exc # "none" THEN s
             ELSE IF method = "fifo" THEN fifo_step(s, sorted[k])
             ELSE IF method = "lifo" THEN lifo_step(s, sorted[k])
             ELSE average_step(s, sorted[k])

calculate_cost_basis_fifo(trade_list, asset) ==
    LET sorted == asset_trades_sorted(trade_list, asset)
    IN  run_loop("fifo", sorted, Len(sorted))

calculate_cost_basis_lifo(trade_list, asset) ==
    LET sorted == asset_trades_sorted(trade_list, asset)
    IN  run_loop("lifo", sorted, Len(sorted))

calculate_cost_basis_average(trade_list, asset) ==
    LET sorted == asset_trades_sorted(trade_list, asset)
        s == run_loop("average", sorted, Len(sorted))
    IN  IF s.exc # "none" THEN s
        ELSE [s EXCEPT !.lots =
                IF RGt(s.units_held, Zero)
                THEN <<[quantity |-> s.units_held,
                        cost_per_unit |-> RDiv(s.total_cost, s.units_held),
                        trade_id |-> AverageTag, date |-> AverageTag]>>
                ELSE <<>>]

-----------------------------------------------------------------------------
(* services/metrics.py: compute_portfolio_metrics.                         *)

\* crypto symbols of the model in Python's string order (the order of sorted())
CryptoSymbols == <<"BTC", "ETH">>

\* Faulty variant: the early return reports roi_on_cost_pct as 0.0 instead of None.
zero_snapshot_roi_zero ==
    [per_asset |-> <<>>, usd_balance |-> Zero, total_value |-> Zero,
     total_external_cash |-> Zero, total_cost_basis_assets |-> Zero,
     realized_pnl |-> Zero, unrealized_pnl |-> Zero, total_pnl |-> Zero,
     roi_pct |-> Zero, roi_on_cost_pct |-> Zero, exc |-> "none"]

zero_snapshot ==
    [per_asset |-> <<>>, usd_balance |-> Zero, total_value |-> Zero,
     total_external_cash |-> Zero, total_cost_basis_assets |-> Zero,
     realized_pnl |-> Zero, unrealized_pnl |-> Zero, total_pnl |-> Zero,
     roi_pct |-> Zero, roi_on_cost_pct |-> None, exc |-> "none"]

\* method = cost_basis_method if cost_basis_method in (...) else "average"
effective_method(cost_basis_method) ==
    IF cost_basis_method \in {"fifo", "lifo", "average"} THEN cost_basis_method
    ELSE "average"

cost_basis_by(method, trade_list, asset) ==
    IF method = "fifo" THEN calculate_cost_basis_fifo(trade_list, asset)
    ELSE IF method = "lifo" THEN calculate_cost_basis_lifo(trade_list, asset)
    ELSE calculate_cost_basis_average(trade_list, asset)

\* Faulty variant: only a negative price falls back to the cost basis (price < 0).
current_value_of_strict(price, cost_basis, total_units_for_value) ==
    IF price = None \/ RLt(price, Zero) THEN cost_basis
    ELSE RMul(total_units_for_value, price)

\* the valuation of lines 217-221
current_value_of(price, cost_basis, total_units_for_value) ==
    IF price = None \/ RLe(price, Zero) THEN cost_basis
    ELSE RMul(total_units_for_value, price)

\* lines 202-237: the per_asset entry, given the asset's trades, the result `cb`
\* of the cost-basis function and the asset's price; `exc` tells whether the
\* cost-basis function raised and is no key of the entry
asset_entry(asset_trades, cb, price) ==
    LET cost_basis == cb.total_cost
        units_held == cb.units_held
        BuyCost(t) == IF IsBuyLike(t) THEN ValuePlusFee(t) ELSE Zero
        SellProceeds(t) == IF IsSell(t) THEN ValueMinusFee(t) ELSE Zero
        buy_cost_asset == Sum([ix \in 1..Len(asset_trades) |-> BuyCost(asset_trades[ix])])
        sell_proceeds_asset == Sum([ix \in 1..Len(asset_trades) |-> SellProceeds(asset_trades[ix])])
        realized_pnl_asset == RSub(sell_proceeds_asset, RSub(buy_cost_asset, cost_basis))
        HoldingQty(t) == IF TypeOf(t) = "Holding" THEN GetOr(t, "quantity", Zero) ELSE Zero
        holding_qty == Sum([ix \in 1..Len(asset_trades) |-> HoldingQty(asset_trades[ix])])
        total_units_for_value == RAdd(units_held, holding_qty)
        current_value == current_value_of(price, cost_basis, total_units_for_value)
        unrealized == RSub(current_value, cost_basis)
    IN  IF cb.exc # "none" THEN [exc |-> cb.exc]
        ELSE [units_held |-> units_held, holding_qty |-> holding_qty, price |-> price,
              current_value |-> current_value, cost_basis |-> cost_basis,
              unrealized_pnl |-> unrealized, realized_pnl |-> realized_pnl_asset,
              lifetime_pnl |-> RAdd(realized_pnl_asset, unrealized),
              roi_pct |-> IF RGt(cost_basis, Zero)
                          THEN RMul(RDiv(unrealized, cost_basis), Hundred) ELSE Zero,
              exc |-> "none"]

asset_entry_of(asset_trades, method, asset, price) ==
    asset_entry(asset_trades, cost_basis_by(method, asset_trades, asset), price)

\* the body of `for asset in crypto_assets` (lines 190-237), given the asset's price
asset_metrics(trades_sorted, method, asset, price) ==
    LET OfAsset(t) == AssetOf(t) = asset
    IN  asset_entry_of(SelectSeq(trades_sorted, OfAsset), method, asset, price)

\* Faulty variant: the cash balance takes the stored value of a trade without its fee.
usd_balance_without_fees(trades_sorted, total_external_cash) ==
    LET Flow(t) ==
            IF AssetOf(t) = "USD" \/ TypeOf(t) \notin {"BUY", "SELL"} THEN Zero
            ELSE IF TypeOf(t) = "BUY" THEN RSub(Zero, OrZero(Get(t, "total_value")))
            ELSE OrZero(Get(t, "total_value"))
    IN  RAdd(total_external_cash, Sum([ix \in 1..Len(trades_sorted) |-> Flow(trades_sorted[ix])]))

\* lines 242-251: the USD cash replay
usd_balance_of(trades_sorted, total_external_cash) ==
    LET Flow(t) ==
            IF AssetOf(t) = "USD" \/ TypeOf(t) \notin {"BUY", "SELL"} THEN Zero
            ELSE LET stored == Get(t, "total_value")
                     total_val == IF stored # None /\ stored # Zero THEN stored
                                  ELSE RMul(OrZero(Get(t, "price")), OrZero(Get(t, "quantity")))
                     fee == OrZero(Get(t, "fee"))
                 IN  IF TypeOf(t) = "BUY" THEN RSub(Zero, RAdd(total_val, fee))
                     ELSE RSub(total_val, fee)
    IN  RAdd(total_external_cash, Sum([ix \in 1..Len(trades_sorted) |-> Flow(trades_sorted[ix])]))

\* lines 173-181
total_external_cash_of(trades_sorted) ==
    LET Deposit(t) == IF AssetOf(t) = "USD" /\ TypeOf(t) = "Deposit"
                      THEN GetOr(t, "quantity", Zero) ELSE Zero
        Withdrawal(t) == IF AssetOf(t) = "USD" /\ TypeOf(t) = "Withdrawal"
                         THEN GetOr(t, "quantity", Zero) ELSE Zero
    IN  RSub(Sum([ix \in 1..Len(trades_sorted) |-> Deposit(trades_sorted[ix])]),
             Sum([ix \in 1..Len(trades_sorted) |-> Withdrawal(trades_sorted[ix])]))

\* line 183: sorted({t["asset"] for t in trades_sorted if t.get("asset") != "USD"})
crypto_assets_of(trades_sorted) ==
    LET Present(a) == \E i \in 1..Len(trades_sorted) : AssetOf(trades_sorted[i]) = a
    IN  SelectSeq(CryptoSymbols, Present)

\* roi_pct falling back to the cost basis when no cash was deposited
roi_pct_of_cost_fallback(total_pnl, total_external_cash) ==
    IF RGt(total_external_cash, Zero)
    THEN RMul(RDiv(total_pnl, total_external_cash), Hundred)
    ELSE total_pnl

\* line 266
roi_pct_of(total_pnl, total_external_cash) ==
    IF RGt(total_external_cash, Zero)
    THEN RMul(RDiv(total_pnl, total_external_cash), Hundred)
    ELSE Zero

\* line 267
roi_on_cost_pct_of(total_pnl, total_cost_basis_assets) ==
    IF RGt(total_cost_basis_assets, Zero)
    THEN RMul(RDiv(total_pnl, total_cost_basis_assets), Hundred)
    ELSE None

\* lines 238-280: the totals and the returned dict, given the per-asset entries `pa`
\* (in the order of crypto_assets), all of them computed without exception
snapshot_of(trades_sorted, crypto_assets, pa, total_external_cash, usd_balance) ==
    LET Cost(i) == pa[i].cost_basis
        Unreal(i) == pa[i].unrealized_pnl
        Value(i) == pa[i].current_value
        idx == [i \in 1..Len(crypto_assets) |-> i]
        total_cost_basis_assets == Sum([ix \in 1..Len(idx) |-> Cost(idx[ix])])
        total_unrealized_pnl == Sum([ix \in 1..Len(idx) |-> Unreal(idx[ix])])
        total_value_assets == Sum([ix \in 1..Len(idx) |-> Value(idx[ix])])
        TotalBuy(t) == IF IsBuyLike(t) /\ AssetOf(t) # "USD" THEN ValuePlusFee(t) ELSE Zero
        TotalSell(t) == IF IsSell(t) /\ AssetOf(t) # "USD" THEN ValueMinusFee(t) ELSE Zero
        total_buy_cost == Sum([ix \in 1..Len(trades_sorted) |-> TotalBuy(trades_sorted[ix])])
        total_sell_proceeds == Sum([ix \in 1..Len(trades_sorted) |-> TotalSell(trades_sorted[ix])])
        realized_pnl == RSub(total_sell_proceeds, RSub(total_buy_cost, total_cost_basis_assets))
        total_pnl == RAdd(realized_pnl, total_unrealized_pnl)
    IN  [per_asset |-> [a \in {crypto_assets[i] : i \in 1..Len(crypto_assets)} |->
                          Without(pa[CHOOSE i \in 1..Len(crypto_assets) : crypto_assets[i] = a],
                                  {"exc"})],
         usd_balance |-> usd_balance,
         total_value |-> RAdd(total_value_assets, usd_balance),
         total_external_cash |-> total_external_cash,
         total_cost_basis_assets |-> total_cost_basis_assets,
         realized_pnl |-> realized_pnl,
         unrealized_pnl |-> total_unrealized_pnl,
         total_pnl |-> total_pnl,
         roi_pct |-> roi_pct_of(total_pnl, total_external_cash),
         roi_on_cost_pct |-> roi_on_cost_pct_of(total_pnl, total_cost_basis_assets),
         exc |-> "none"]

\* the asset loop has run: either one of the cost-basis calls raised, or the snapshot
\* is returned; `calls` are the assets get_current_price was called with, in order
metrics_result(trades_sorted, crypto_assets, pa, total_external_cash) ==
    LET failed == {i \in 1..Len(crypto_assets) : pa[i].exc # "none"}
        first == CHOOSE i \in failed : \A j \in failed : i <= j
    IN  IF failed # {}
        THEN [out |-> [exc |-> pa[first].exc], calls |-> SubSeq(crypto_assets, 1, first - 1)]
        ELSE [out |-> snapshot_of(trades_sorted, crypto_assets, pa, total_external_cash,
                                  usd_balance_of(trades_sorted, total_external_cash)),
              calls |-> crypto_assets]

\* lines 183-280, given trades_sorted
metrics_of_sorted(trades_sorted, crypto_assets, method, get_current_price) ==
    IF \E i \in 1..Len(trades_sorted) : "asset" \notin DOMAIN trades_sorted[i]
    THEN [out |-> [exc |-> "KeyError"], calls |-> <<>>]
    ELSE metrics_result(trades_sorted, crypto_assets,
            [i \in 1..Len(crypto_assets) |->
                asset_metrics(trades_sorted, method, crypto_assets[i],
                              get_current_price[crypto_assets[i]])],
            total_external_cash_of(trades_sorted))

metrics_sorted(trades_sorted, cost_basis_method, get_current_price) ==
    metrics_of_sorted(trades_sorted, crypto_assets_of(trades_sorted),
                      effective_method(cost_basis_method), get_current_price)

\* Result: `out` is the returned snapshot (exc = "none") or the exception raised
compute_portfolio_metrics(trade_list, cost_basis_method, get_current_price) ==
    IF trade_list = <<>> THEN [out |-> zero_snapshot, calls |-> <<>>]
    ELSE metrics_sorted(SortByDate(trade_list), cost_basis_method, get_current_price)

-----------------------------------------------------------------------------
(* datetime: a value is <<year, month, day, hour, minute, second>>; datetime *)
(* comparison is the lexicographic order of the six fields.                *)

Digit(n) == 48 + n
Digits2(n) == <<Digit((n \div 10) % 10), Digit(n % 10)>>
Digits4(n) == <<Digit((n \div 1000) % 10), Digit((n \div 100) % 10)>> \o Digits2(n % 100)
Dash == <<45>>
Space == <<32>>
Colon == <<58>>

\* dt.strftime("%Y-%m-%d %H:%M:%S")
strftime(dt) ==
    Digits4(dt[1]) \o Dash \o Digits2(dt[2]) \o Dash \o Digits2(dt[3]) \o Space
    \o Digits2(dt[4]) \o Colon \o Digits2(dt[5]) \o Colon \o Digits2(dt[6])

IsDigits(s) == \A i \in 1..Len(s) : s[i] \in 48..57

\* the number written by a string of decimal digits
RECURSIVE NatOf(_)
NatOf(s) == IF s = <<>> THEN 0 ELSE 10 * NatOf(Front(s)) + (Last(s) - 48)

\* s.split(sep) for a one-character separator: the pieces between the separators
RECURSIVE Split(_, _)
Split(s, sep) ==
    IF s = <<>> THEN << <<>> >>
    ELSE LET rest == Split(Tail(s), sep)
         IN  IF s[1] = sep THEN << <<>> >> \o rest
             ELSE << <<s[1]>> \o rest[1] >> \o Tail(rest)

IsLeap(y) == (y % 4 = 0 /\ y % 100 # 0) \/ y % 400 = 0

DaysIn(y, m) ==
    IF m = 2 THEN (IF IsLeap(y) THEN 29 ELSE 28)
    ELSE IF m \in {4, 6, 9, 11} THEN 30 ELSE 31

\* the result of a call that raised ValueError
ValueError == [exc |-> "ValueError"]
\* the result of a call that returned v
Return(v) == [exc |-> "none", value |-> v]

\* datetime.strptime(s, "%Y-%m-%d %H:%M:%S"): the year is four digits, every other
\* field one or two digits, the blank of the format matches one or more spaces, and
\* the fields must form a date and a time of day. A string of any other shape, or
\* with a field out of range, raises ValueError.
strptime_fields(date_part, time_part) ==
    LET d == Split(date_part, 45)
        t == Split(time_part, 58)
    IN  IF Len(d) # 3 \/ Len(t) # 3 THEN ValueError
        ELSE IF \E f \in {d[1], d[2], d[3], t[1], t[2], t[3]} : f = <<>> \/ ~IsDigits(f)
        THEN ValueError
        ELSE IF Len(d[1]) # 4 \/ \E f \in {d[2], d[3], t[1], t[2], t[3]} : Len(f) > 2
        THEN ValueError
        ELSE LET y == NatOf(d[1])
                 mo == NatOf(d[2])
                 dd == NatOf(d[3])
                 hh == NatOf(t[1])
                 mi == NatOf(t[2])
                 ss == NatOf(t[3])
             IN  IF /\ y >= 1
                    /\ mo \in 1..12
                    /\ dd >= 1
                    /\ dd <= DaysIn(y, mo)
                    /\ hh <= 23
                    /\ mi <= 59
                    /\ ss <= 59
                 THEN Return(<<y, mo, dd, hh, mi, ss>>)
                 ELSE ValueError

strptime(s) ==
    LET NonEmpty(x) == x # <<>>
        words == Split(s, 32)
        parts == SelectSeq(words, NonEmpty)
    IN  IF Len(parts) # 2 \/ words[1] = <<>> \/ Last(words) = <<>> THEN ValueError
        ELSE strptime_fields(parts[1], parts[2])

\* dt1 < dt2
DtLt(a, b) ==
    \E i \in 1..6 : a[i] < b[i] /\ \A j \in 1..(i - 1) : a[j] = b[j]

DtMax(a, b) == IF DtLt(a, b) THEN b ELSE a

\* dt + timedelta(seconds=1)
NextSecond(dt) ==
    IF dt[6] < 59 THEN [dt EXCEPT ![6] = @ + 1]
    ELSE IF dt[5] < 59 THEN [dt EXCEPT ![5] = @ + 1, ![6] = 0]
    ELSE IF dt[4] < 23 THEN [dt EXCEPT ![4] = @ + 1, ![5] = 0, ![6] = 0]
    ELSE IF dt[3] < DaysIn(dt[1], dt[2]) THEN <<dt[1], dt[2], dt[3] + 1, 0, 0, 0>>
    ELSE IF dt[2] < 12 THEN <<dt[1], dt[2] + 1, 1, 0, 0, 0>>
    ELSE <<dt[1] + 1, 1, 1, 0, 0, 0>>

\* dt + timedelta(seconds=n), n >= 0
RECURSIVE AddSeconds(_, _)
AddSeconds(dt, n) == IF n = 0 THEN dt ELSE AddSeconds(NextSecond(dt), n - 1)

-----------------------------------------------------------------------------
(* legacy_crypto_tracker.py: run_projection_from_table.                    *)
(* Lists are objects: the heap is the sequence of the list objects alive    *)
(* during the call and a reference is an index into it. Object 1 is         *)
(* self.data["trades"]. Trade dicts are shared between the lists, and       *)
(* neither this method nor services/metrics.py assigns to a key of a trade  *)
(* dict, so a dict is the value it holds.                                   *)

\* s.replace(c, "") for a one-character c
Remove(s, c) ==
    LET Keep(x) == x # c
    IN  SelectSeq(s, Keep)

RECURSIVE Pow10(_)
Pow10(n) == IF n = 0 THEN 1 ELSE 10 * Pow10(n - 1)

\* float(s) for the strings a table cell holds: an optional sign, digits and at
\* most one decimal point give the number written; a string with any other
\* character (or without a digit) raises ValueError
float_of(s) ==
    LET signed == s # <<>> /\ s[1] \in {43, 45}
        body == IF signed THEN Tail(s) ELSE s
        p == Split(body, 46)
        digits == Remove(body, 46)
    IN  IF Len(p) > 2 \/ digits = <<>> \/ ~IsDigits(digits) THEN ValueError
        ELSE LET frac == IF Len(p) = 2 THEN p[2] ELSE <<>>
                 mag == Rat(NatOf(digits), Pow10(Len(frac)))
             IN  Return(IF signed /\ s[1] = 45 THEN RSub(Zero, mag) ELSE mag)

\* Faulty variant: the list itself instead of a copy of it.
list_of_alias(heap, ref) == [heap |-> heap, ref |-> ref]

\* list(x): a new list object with the elements of the list x
list_of(heap, ref) == [heap |-> Append(heap, heap[ref]), ref |-> Len(heap) + 1]

\* x.append(v)
list_append(heap, ref, v) == [heap EXCEPT ![ref] = Append(@, v)]

\* lines 3325-3331: the latest parsed date of the real trades, or datetime.now()
\* when there is no real trade or a date is absent (KeyError) or does not parse
last_dt_of(real_trades, now) ==
    LET Parsed(t) == IF "date" \in DOMAIN t THEN strptime(t.date) ELSE [exc |-> "KeyError"]
        latest[i \in 1..Len(real_trades)] ==
            IF i = 1 THEN Parsed(real_trades[1]).value
            ELSE DtMax(latest[i - 1], Parsed(real_trades[i]).value)
    IN  IF real_trades = <<>> THEN now
        ELSE IF \E i \in 1..Len(real_trades) : Parsed(real_trades[i]).exc # "none" THEN now
        ELSE latest[Len(real_trades)]

\* str(uuid.uuid4()) of the n-th synthesized trade: a fresh identifier ("u" and n)
uuid4(n) == <<117, Digit(n)>>

\* lines 3342-3353: the trade synthesized from row number i (from 0) of the table.
\* The account column of the model's rows is empty, so account_id is None.
synthetic_trade(row, i, price, qty, last_dt) ==
    [id |-> uuid4(i + 1), date |-> strftime(AddSeconds(last_dt, i + 1)),
     asset |-> row[1], type |-> row[2], price |-> price, quantity |-> qty,
     fee |-> Zero, total_value |-> RMul(price, qty),
     exchange |-> <<>>, order_type |-> "maker", account_id |-> None]

\* lines 3335-3357: one iteration of the loop over the table rows
proj_row(heap, trades_ref, row, i, price, qty, last_dt) ==
    IF price.exc # "none" \/ qty.exc # "none" THEN heap
    ELSE IF RLe(price.value, Zero) \/ RLe(qty.value, Zero) THEN heap
    ELSE list_append(heap, trades_ref,
                     synthetic_trade(row, i, price.value, qty.value, last_dt))

\* the heap after the first k rows
RECURSIVE proj_rows_loop(_, _, _, _, _)
proj_rows_loop(heap, trades_ref, rows, k, last_dt) ==
    IF k = 0 THEN heap
    ELSE proj_row(proj_rows_loop(heap, trades_ref, rows, k - 1, last_dt), trades_ref,
                  rows[k], k - 1,
                  float_of(Remove(Remove(rows[k][3], 36), 44)),
                  float_of(Remove(rows[k][4], 44)),
                  last_dt)

\* lines 3358-3366: nothing is computed for an empty combined list; otherwise the
\* combined list goes to compute_portfolio_metrics, which sorts a copy of it
proj_metrics(trade_list, cost_basis_method, get_current_price) ==
    IF trade_list = <<>> THEN [exc |-> "none", shown |-> FALSE]
    ELSE compute_portfolio_metrics(trade_list, cost_basis_method, get_current_price).out

-----------------------------------------------------------------------------
(* Callers of the core: a caller builds a trade list and calls one of the   *)
(* functions of services/metrics.py on it.                                  *)

MaxTrades == 3
MaxPortfolio == 3
MaxShuffled == 3
MaxDefensive == 2

Methods == {"fifo", "lifo", "average"}
\* what a caller may pass as cost_basis_method: the three methods and an unknown string
MethodArgs == Methods \cup {"hifo"}

Id(k) == <<Digit(k)>>
\* the k-th timestamp of a history
DateOf(k) == strftime(<<2024, 1, 1, 0, 0, k>>)

Trade(id, date, asset, type, quantity, price, fee, total_value) ==
    [id |-> id, date |-> date, asset |-> asset, type |-> type,
     quantity |-> R(quantity), price |-> R(price), fee |-> R(fee),
     total_value |-> R(total_value)]

\* A template is <<asset, type, quantity, price, fee>>. The record is the one add_trade
\* stores (lines 2351-2368): total_value = price * quantity for a crypto trade, and
\* price = 0, total_value = quantity for a USD Deposit/Withdrawal.
FromTemplate(tpl, id, date) ==
    Trade(id, date, tpl[1], tpl[2], tpl[3], tpl[4], tpl[5],
          IF tpl[1] = "USD" THEN tpl[3] ELSE tpl[4] * tpl[3])

\* single-asset histories
HistoryTemplates ==
    { <<"BTC", "BUY", 2, 3, 0>>, <<"BTC", "BUY", 3, 2, 1>>, <<"BTC", "BUY", 2, 0, 0>>,
      <<"BTC", "Transfer", 1, 4, 0>>,
      <<"BTC", "SELL", 1, 5, 1>>, <<"BTC", "SELL", 2, 5, 0>> }

\* portfolios: two crypto assets, parked units and fiat cash
PortfolioTemplates ==
    { <<"BTC", "BUY", 2, 3, 0>>, <<"BTC", "SELL", 1, 5, 1>>, <<"BTC", "Holding", 1, 5, 0>>,
      <<"ETH", "Transfer", 1, 4, 0>>,
      <<"USD", "Deposit", 10, 0, 0>>, <<"USD", "Withdrawal", 4, 0, 0>> }

\* lists given in any order
ShuffledTemplates ==
    { <<"BTC", "BUY", 2, 3, 0>>, <<"BTC", "BUY", 3, 2, 1>>, <<"BTC", "SELL", 2, 5, 0>>,
      <<"ETH", "BUY", 1, 4, 0>> }

NoCall == [fn |-> "none"]

\* price lookups handed to compute_portfolio_metrics: asset -> price or None
NoPrices == [a \in {"BTC", "ETH"} |-> None]
PriceLookups ==
    { NoPrices,
      [a \in {"BTC", "ETH"} |-> IF a = "BTC" THEN R(4) ELSE None],
      [a \in {"BTC", "ETH"} |-> IF a = "BTC" THEN Zero ELSE R(-1)],
      [a \in {"BTC", "ETH"} |-> IF a = "BTC" THEN R(2) ELSE R(5)] }

AppendTrade(t, max) ==
    /\ Len(trades) < max
    /\ trades' = Append(trades, t)
    /\ call' = NoCall
    /\ UNCHANGED <<ledger, proj_rows, proj, objects, running, form, uuids, data_files, price_cache, clock>>

CallFifo(asset) ==
    /\ call = NoCall
    /\ call' = [fn |-> "fifo", asset |-> asset,
                out |-> calculate_cost_basis_fifo(trades, asset)]
    /\ UNCHANGED <<trades, ledger, proj_rows, proj, objects, running, form, uuids, data_files, price_cache, clock>>

CallLifo(asset) ==
    /\ call = NoCall
    /\ call' = [fn |-> "lifo", asset |-> asset,
                out |-> calculate_cost_basis_lifo(trades, asset)]
    /\ UNCHANGED <<trades, ledger, proj_rows, proj, objects, running, form, uuids, data_files, price_cache, clock>>

CallAverage(asset) ==
    /\ call = NoCall
    /\ call' = [fn |-> "average", asset |-> asset,
                out |-> calculate_cost_basis_average(trades, asset)]
    /\ UNCHANGED <<trades, ledger, proj_rows, proj, objects, running, form, uuids, data_files, price_cache, clock>>

CallMetrics(cost_basis_method, get_current_price) ==
    /\ call = NoCall
    /\ \E r \in {compute_portfolio_metrics(trades, cost_basis_method, get_current_price)} :
          call' = [fn |-> "metrics", method |-> cost_basis_method,
                   prices |-> get_current_price, out |-> r.out, calls |-> r.calls]
    /\ UNCHANGED <<trades, ledger, proj_rows, proj, objects, running, form, uuids, data_files, price_cache, clock>>

Init ==
    /\ trades = <<>>
    /\ call = NoCall
    /\ ledger = <<>>
    /\ proj_rows = <<>>
    /\ proj = [ran |-> FALSE]
    /\ objects = <<>>
    /\ running = <<>>
    /\ form = <<>>
    /\ uuids = 0
    /\ data_files = <<>>
    /\ price_cache = <<>>
    /\ clock = <<>>

(* Portfolios: compute_portfolio_metrics on trade lists built in date order. *)
AppendPortfolio ==
    \E tpl \in PortfolioTemplates :
        AppendTrade(FromTemplate(tpl, Id(Len(trades) + 1), DateOf(Len(trades) + 1)),
                    MaxPortfolio)

Next ==
    \/ AppendPortfolio
    \/ \E m \in MethodArgs, p \in PriceLookups : CallMetrics(m, p)

Spec == Init /\ [][Next]_vars

(* Histories of one asset, built in date order.                            *)
AppendHistory ==
    \E tpl \in HistoryTemplates :
        AppendTrade(FromTemplate(tpl, Id(Len(trades) + 1), DateOf(Len(trades) + 1)),
                    MaxTrades)

NextHistory ==
    \/ AppendHistory
    \/ CallFifo("BTC")
    \/ CallLifo("BTC")
    \/ CallAverage("BTC")
    \/ \E m \in Methods : CallMetrics(m, NoPrices)

SpecHistory == Init /\ [][NextHistory]_vars

(* Lists in any order: the next trade of the list is the trade of any date   *)
(* not yet in it, so the lists are the trade sets in each of their orders.  *)
UsedDates == {trades[i].date : i \in 1..Len(trades)}

AppendShuffled ==
    \E tpl \in ShuffledTemplates, k \in 1..MaxShuffled :
        /\ DateOf(k) \notin UsedDates
        /\ AppendTrade(FromTemplate(tpl, Id(k), DateOf(k)), MaxShuffled)

NextOrder ==
    \/ AppendShuffled
    \/ CallFifo("BTC")
    \/ CallLifo("BTC")
    \/ CallAverage("BTC")
    \/ CallMetrics("fifo", NoPrices)

SpecOrder == Init /\ [][NextOrder]_vars

(* Defensive inputs: records with missing keys or a quantity <= 0, which the *)
(* entry forms reject but the core may still be given.                      *)
Fields == {"asset", "type", "date", "quantity", "price", "fee", "total_value", "id"}
MaxMissing == 1

DefensiveTemplates ==
    { <<"BTC", "BUY", 2, 3, 0>>, <<"BTC", "SELL", 1, 5, 1>>, <<"USD", "Deposit", 10, 0, 0>> }

NonPositiveTemplates ==
    { <<"BTC", "BUY", 0, 3, 0>>, <<"BTC", "BUY", -1, 3, 0>>, <<"BTC", "SELL", -1, 5, 0>>,
      <<"USD", "Deposit", -5, 0, 0>> }

AppendMalformed ==
    \E tpl \in DefensiveTemplates, missing \in SUBSET Fields :
        /\ Cardinality(missing) <= MaxMissing
        /\ AppendTrade(Without(FromTemplate(tpl, Id(Len(trades) + 1),
                                            DateOf(Len(trades) + 1)), missing),
                       MaxDefensive)

AppendNonPositive ==
    \E tpl \in NonPositiveTemplates :
        AppendTrade(FromTemplate(tpl, Id(Len(trades) + 1), DateOf(Len(trades) + 1)),
                    MaxDefensive)

\* a record whose stored total_value is 0 although price * quantity is not: what
\* round(total_amount, 8) of add_trade (line 2366) stores for a dust trade
ZeroValueTrade(k) ==
    [FromTemplate(<<"BTC", "BUY", 2, 3, 1>>, Id(k), DateOf(k)) EXCEPT !.total_value = Zero]

AppendZeroValue == AppendTrade(ZeroValueTrade(Len(trades) + 1), MaxDefensive)

NextDefensive ==
    \/ AppendMalformed
    \/ AppendNonPositive
    \/ AppendZeroValue
    \/ CallFifo("BTC")
    \/ CallLifo("BTC")
    \/ CallAverage("BTC")
    \/ \E m \in {"fifo", "average"} : CallMetrics(m, NoPrices)

SpecDefensive == Init /\ [][NextDefensive]_vars

(* Projections: the ledger and the projection table are those of the user's  *)
(* data file. A ledger date is one add_trade wrote, one edit_trade accepted  *)
(* (whatever strptime parses, here an hour without its leading zero), or one *)
(* of an imported trade (here absent).                                       *)
MaxLedger == 2
MaxRows == 2

\* "2024-02-29 23:59:58"
PaddedDate == strftime(<<2024, 2, 29, 23, 59, 58>>)
\* "2024-02-29 9:00:00"
UnpaddedDate == <<50, 48, 50, 52, 45, 48, 50, 45, 50, 57, 32, 57, 58, 48, 48, 58, 48, 48>>

\* None stands for a trade without the date key
LedgerDates == {PaddedDate, UnpaddedDate, None}

\* the k-th trade of a ledger: a BUY of 2 BTC at 3, with the given date or without one
LedgerTrade(k, date) ==
    IF date = None THEN Without(FromTemplate(<<"BTC", "BUY", 2, 3, 0>>, Id(k), None), {"date"})
    ELSE FromTemplate(<<"BTC", "BUY", 2, 3, 0>>, Id(k), date)

Ledgers ==
    UNION { { [k \in 1..n |-> LedgerTrade(k, d[k])] : d \in [1..n -> LedgerDates] } :
            n \in 0..MaxLedger }

\* table rows (asset, type, price, quantity) with the numbers as the strings the
\* table holds: SELL 1.00 BTC at "$1,000.00"; a BUY of quantity "0.00"; a BUY at "abc"
ProjRows ==
    { <<"BTC", "SELL", <<36, 49, 44, 48, 48, 48, 46, 48, 48>>, <<49, 46, 48, 48>>>>,
      <<"BTC", "BUY", <<51, 46, 48, 48>>, <<48, 46, 48, 48>>>>,
      <<"BTC", "BUY", <<97, 98, 99>>, <<49, 46, 48, 48>>>> }

ProjTables == UNION { [1..n -> ProjRows] : n \in 0..MaxRows }

\* values of datetime.now(): before and after the dates of the ledger
Clock == { <<2024, 2, 29, 9, 0, 0>>, <<2024, 2, 29, 23, 59, 59>> }

InitProjection ==
    /\ trades = <<>>
    /\ call = NoCall
    /\ ledger \in Ledgers
    /\ proj_rows \in ProjTables
    /\ proj = [ran |-> FALSE]
    /\ objects = <<>>
    /\ running = <<>>
    /\ form = <<>>
    /\ uuids = 0
    /\ data_files = <<>>
    /\ price_cache = <<>>
    /\ clock = <<>>

\* run_projection_from_table (lines 3317-3366) when the table holds `rows`: the
\* statements of the method in order, with the ledger as list object 1 of the heap
run_projection_from_table(rows) ==
    \E cost_basis_method \in {"average"} :
    \E real_trades \in {list_of(<<ledger>>, 1)} :
    \E last_dt \in {last_dt_of(real_trades.heap[real_trades.ref], now) : now \in Clock} :
    \E combined \in {list_of(real_trades.heap, real_trades.ref)} :
    \E heap \in {proj_rows_loop(combined.heap, combined.ref, rows, Len(rows), last_dt)} :
    \E metrics \in {proj_metrics(heap[combined.ref], cost_basis_method, NoPrices)} :
        /\ ledger' = heap[1]
        /\ proj_rows' = rows
        /\ proj' = [ran |-> TRUE, before |-> ledger, trades |-> heap[combined.ref],
                    n_real |-> Len(heap[real_trades.ref]), last_dt |-> last_dt,
                    metrics |-> metrics]
        /\ UNCHANGED <<trades, call, objects, running, form, uuids, data_files, price_cache, clock>>

\* run_projection: the projection of the table as it is
run_projection == run_projection_from_table(proj_rows)

\* _proj_remove_row with one row selected: the row leaves the table, and the
\* projection runs on the rows that remain
proj_remove_row ==
    \E sel \in 1..Len(proj_rows) :
        run_projection_from_table(SubSeq(proj_rows, 1, sel - 1)
                                  \o SubSeq(proj_rows, sel + 1, Len(proj_rows)))

NextProjection ==
    \/ run_projection
    \/ proj_remove_row

SpecProjection == InitProjection /\ [][NextProjection]_vars

-----------------------------------------------------------------------------
(* legacy_crypto_tracker.py: compute_realized_pnl_per_trade. The empty       *)
(* string is the empty sequence of character codes.                         *)

\* d[k] = v
DictSet(d, k, v) == [x \in DOMAIN d \cup {k} |-> IF x = k THEN v ELSE d[x]]

\* Faulty variant: the quantity sold is not capped at the units held.
RMin2_uncapped(a, b) == a

\* min(a, b)
RMin2(a, b) == IF RLe(a, b) THEN a ELSE b

\* lines 229-261, one iteration of `for trade in sorted_trades`
realized_step(s, trade) ==
    LET asset == AssetOf(trade)
        tid == GetOr(trade, "id", <<>>)
        ttype == TypeOf(trade)
        qty == OrZero(Get(trade, "quantity"))
        price == OrZero(Get(trade, "price"))
        fee == OrZero(Get(trade, "fee"))
        u == GetOr(s.units, asset, Zero)
        c == GetOr(s.cost_basis, asset, Zero)
        sold == RMin2(qty, u)
        cost_of_sold == RMul(RDiv(c, u), sold)
    IN  IF asset = "USD" \/ ttype \notin {"BUY", "SELL", "Transfer"}
        THEN IF ttype = "SELL" /\ asset # "" /\ tid # <<>>
             THEN [s EXCEPT !.result = DictSet(@, tid, Zero)]
             ELSE s
        ELSE IF ttype \in {"BUY", "Transfer"}
        THEN [s EXCEPT !.units = DictSet(@, asset, RAdd(u, qty)),
                       !.cost_basis = DictSet(@, asset, RAdd(c, ValuePlusFee(trade)))]
        ELSE IF RLe(u, Zero)
        THEN [s EXCEPT !.result = DictSet(@, tid, Zero)]
        ELSE [s EXCEPT !.result = DictSet(@, tid,
                                          RSub(RSub(RMul(price, sold), cost_of_sold), fee)),
                       !.units = DictSet(@, asset, RSub(u, sold)),
                       !.cost_basis = DictSet(@, asset, RSub(c, cost_of_sold))]

\* the state of the loop after the first k trades
RECURSIVE realized_loop(_, _)
realized_loop(sorted_trades, k) ==
    IF k = 0 THEN [units |-> <<>>, cost_basis |-> <<>>, result |-> <<>>]
    ELSE realized_step(realized_loop(sorted_trades, k - 1), sorted_trades[k])

\* lines 210-263; sorted(trades, key=lambda t: t["date"]) raises KeyError on a trade
\* without date. The body never reads `method` (line 224: "here we do average only").
compute_realized_pnl_per_trade(trade_list, method) ==
    IF \E i \in 1..Len(trade_list) : "date" \notin DOMAIN trade_list[i]
    THEN [exc |-> "KeyError"]
    ELSE Return(realized_loop(SortByDate(trade_list), Len(trade_list)).result)

(* Trade tables shown with a realized P&L column: lists that also hold what   *)
(* an imported file may hold, a SELL of USD.                                  *)
RealizedTemplates ==
    { <<"BTC", "BUY", 2, 3, 0>>, <<"BTC", "SELL", 1, 5, 1>>, <<"BTC", "Holding", 1, 5, 0>>,
      <<"ETH", "Transfer", 1, 4, 0>>, <<"ETH", "SELL", 2, 5, 0>>,
      <<"USD", "Deposit", 10, 0, 0>>, <<"USD", "Withdrawal", 4, 0, 0>>,
      <<"USD", "SELL", 4, 1, 0>> }

AppendRealized ==
    \E tpl \in RealizedTemplates :
        AppendTrade(FromTemplate(tpl, Id(Len(trades) + 1), DateOf(Len(trades) + 1)),
                    MaxTrades)

CallRealized ==
    /\ call = NoCall
    /\ call' = [fn |-> "realized",
                out |-> compute_realized_pnl_per_trade(trades, "average")]
    /\ UNCHANGED <<trades, ledger, proj_rows, proj, objects, running, form, uuids, data_files, price_cache, clock>>

NextRealized ==
    \/ AppendRealized
    \/ CallRealized

SpecRealized == Init /\ [][NextRealized]_vars

-----------------------------------------------------------------------------
(* Calls of services/metrics.py in progress at the same time over one trade *)
(* list. `objects` are the dicts alive: objects[i] for i in 1..Len(trades)   *)
(* is the i-th dict of the caller's list, and the objects after them are the *)
(* lot dicts the replays create. A reference is an index into objects; the   *)
(* lists a call builds (asset_trades, trades_sorted, lots) are its own and   *)
(* hold references. A step of a call is the sort, one iteration of a `for`   *)
(* loop, one iteration of the `while` loop, or the return.                   *)

MaxConcurrent == 3

Calls == {1, 2}

Idle == [pc |-> "idle"]

\* the values of the dicts a list of references points to
Deref(objs, refs) == [i \in 1..Len(refs) |-> objs[refs[i]]]

\* sorted(refs, key=lambda t: t.get("date", "")), a new list
sorted_refs(objs, refs) ==
    LET keyed == [i \in 1..Len(refs) |-> [ref |-> refs[i], date |-> DateKey(objs[refs[i]])]]
        sorted == SortByDate(keyed)
    IN  [i \in 1..Len(sorted) |-> sorted[i].ref]

\* lines 19-20: asset_trades = [t for t in trades if ...]; asset_trades.sort(...)
asset_trade_refs(objs, refs, asset) ==
    LET OfAsset(r) == AssetOf(objs[r]) = asset
    IN  sorted_refs(objs, SelectSeq(refs, OfAsset))

\* Faulty variant: the trade dict itself is pushed as the lot.
alloc_lot_alias(objs, trade_ref, qty, cost_per_unit) ==
    [objects |-> [objs EXCEPT ![trade_ref] =
                      DictSet(DictSet(@, "quantity", qty), "cost_per_unit", cost_per_unit)],
     ref |-> trade_ref]

\* lines 32-37: lots.append({...}) creates a dict
alloc_lot(objs, trade_ref, qty, cost_per_unit) ==
    [objects |-> Append(objs, NewLot(objs[trade_ref], qty, cost_per_unit)),
     ref |-> Len(objs) + 1]

\* lots.pop(0), lots.pop()
PopAt(s, at) == SubSeq(s, 1, at - 1) \o SubSeq(s, at + 1, Len(s))

\* the caller builds the list while no call is in progress
AppendConcurrent(t) ==
    /\ \A p \in Calls : running[p] = Idle
    /\ Len(trades) < MaxConcurrent
    /\ trades' = Append(trades, t)
    /\ objects' = Append(objects, t)
    /\ UNCHANGED <<call, ledger, proj_rows, proj, running, form, uuids, data_files, price_cache, clock>>

\* a call of calculate_cost_basis_<fn>(trades, asset) or of
\* compute_portfolio_metrics(trades, "fifo", get_current_price) begins; the calls
\* are numbered in the order they begin
begin(p, fn, asset) ==
    /\ running[p] = Idle
    /\ \A q \in Calls : q < p => running[q] # Idle
    /\ trades # <<>>
    /\ running' = [running EXCEPT ![p] = [pc |-> "sort", fn |-> fn, asset |-> asset]]
    /\ UNCHANGED <<trades, call, ledger, proj_rows, proj, objects, form, uuids, data_files, price_cache, clock>>

\* lines 19-24 (57-71, 113-118)
cb_sort(p) ==
    /\ running[p].pc = "sort"
    /\ running[p].fn \in Methods
    /\ running' = [running EXCEPT ![p] =
            [pc |-> "for", fn |-> @.fn, asset |-> @.asset,
             asset_trades |-> asset_trade_refs(objects, [i \in 1..Len(trades) |-> i], @.asset),
             i |-> 1, lots |-> <<>>, total_cost |-> Zero, units_held |-> Zero,
             sell_qty |-> Zero]]
    /\ UNCHANGED <<trades, call, ledger, proj_rows, proj, objects, form, uuids, data_files, price_cache, clock>>

\* lines 27-39 (74-86): the BUY/Transfer branch of the FIFO and the LIFO replay
cb_buy_lot(p, me, trade_ref) ==
    LET trade == objects[trade_ref]
        qty == OrZero(Get(trade, "quantity"))
        total_val == ValuePlusFee(trade)
        cost_per_unit == IF qty # Zero THEN RDiv(total_val, qty) ELSE Zero
    IN  IF RGt(cost_per_unit, Zero) /\ RGt(qty, Zero)
        THEN \E a \in {alloc_lot(objects, trade_ref, qty, cost_per_unit)} :
                /\ objects' = a.objects
                /\ running' = [running EXCEPT ![p] =
                        [me EXCEPT !.lots = Append(@, a.ref),
                                   !.units_held = RAdd(@, qty),
                                   !.total_cost = RAdd(@, total_val),
                                   !.i = @ + 1]]
        ELSE /\ running' = [running EXCEPT ![p] = [me EXCEPT !.i = @ + 1]]
             /\ UNCHANGED objects

\* lines 119-131: one iteration of the Average replay
cb_average(p, me, trade) ==
    \E s \in {average_step([lots |-> <<>>, total_cost |-> me.total_cost,
                            units_held |-> me.units_held, exc |-> "none"], trade)} :
        /\ running' = [running EXCEPT ![p] =
                IF s.exc # "none"
                THEN [pc |-> "done", fn |-> me.fn, asset |-> me.asset, lots |-> <<>>,
                      out |-> [s EXCEPT !.lots = <<>>]]
                ELSE [me EXCEPT !.total_cost = s.total_cost,
                                !.units_held = s.units_held, !.i = @ + 1]]
        /\ UNCHANGED objects

\* lines 133-142: the lots of the Average result
average_lots(total_cost, units_held) ==
    IF RGt(units_held, Zero)
    THEN <<[quantity |-> units_held, cost_per_unit |-> RDiv(total_cost, units_held),
            trade_id |-> AverageTag, date |-> AverageTag]>>
    ELSE <<>>

\* one iteration of `for trade in asset_trades`, up to the `while` of a SELL; or the
\* return when the list is exhausted
cb_for(p) ==
    /\ running[p].pc = "for"
    /\ LET me == running[p]
       IN  IF me.i > Len(me.asset_trades)
           THEN /\ running' = [running EXCEPT ![p] =
                        [pc |-> "done", fn |-> me.fn, asset |-> me.asset, lots |-> me.lots,
                         out |-> [lots |-> IF me.fn = "average"
                                           THEN average_lots(me.total_cost, me.units_held)
                                           ELSE Deref(objects, me.lots),
                                  total_cost |-> me.total_cost,
                                  units_held |-> me.units_held, exc |-> "none"]]]
                /\ UNCHANGED objects
           ELSE LET trade_ref == me.asset_trades[me.i]
                    trade == objects[trade_ref]
                IN  IF me.fn = "average" THEN cb_average(p, me, trade)
                    ELSE IF IsBuyLike(trade) THEN cb_buy_lot(p, me, trade_ref)
                    ELSE IF IsSell(trade)
                    THEN /\ running' = [running EXCEPT ![p] =
                                [me EXCEPT !.sell_qty = OrZero(Get(trade, "quantity")),
                                           !.units_held =
                                               RSub(@, OrZero(Get(trade, "quantity"))),
                                           !.pc = "while"]]
                         /\ UNCHANGED objects
                    ELSE /\ running' = [running EXCEPT ![p] = [me EXCEPT !.i = @ + 1]]
                         /\ UNCHANGED objects
    /\ UNCHANGED <<trades, call, ledger, proj_rows, proj, form, uuids, data_files, price_cache, clock>>

\* lines 43-53 (90-100): one test of `while sell_qty > 0 and lots` and its body
cb_while(p) ==
    /\ running[p].pc = "while"
    /\ LET me == running[p]
           at == IF me.fn = "fifo" THEN 1 ELSE Len(me.lots)
           lot == me.lots[at]
           q == objects[lot].quantity
           cost_per_unit == objects[lot].cost_per_unit
       IN  IF ~(RGt(me.sell_qty, Zero) /\ me.lots # <<>>)
           THEN /\ running' = [running EXCEPT ![p] = [me EXCEPT !.pc = "for", !.i = @ + 1]]
                /\ UNCHANGED objects
           ELSE IF RLe(q, me.sell_qty)
           THEN /\ running' = [running EXCEPT ![p] =
                        [me EXCEPT !.total_cost = RSub(@, RMul(q, cost_per_unit)),
                                   !.sell_qty = RSub(@, q),
                                   !.lots = PopAt(@, at)]]
                /\ UNCHANGED objects
           ELSE /\ running' = [running EXCEPT ![p] =
                        [me EXCEPT !.total_cost = RSub(@, RMul(me.sell_qty, cost_per_unit)),
                                   !.sell_qty = Zero]]
                /\ objects' = [objects EXCEPT ![lot].quantity = RSub(@, me.sell_qty)]
    /\ UNCHANGED <<trades, call, ledger, proj_rows, proj, form, uuids, data_files, price_cache, clock>>

\* lines 171-189: trades_sorted, the cash totals and the assets
m_sort(p) ==
    /\ running[p].pc = "sort"
    /\ running[p].fn = "metrics"
    /\ \E trades_sorted \in {sorted_refs(objects, [i \in 1..Len(trades) |-> i])} :
          running' = [running EXCEPT ![p] =
            IF \E i \in 1..Len(trades) : "asset" \notin DOMAIN objects[i]
            THEN [pc |-> "done", fn |-> @.fn, asset |-> @.asset, lots |-> <<>>,
                  out |-> [exc |-> "KeyError"]]
            ELSE [pc |-> "assets", fn |-> @.fn, asset |-> @.asset,
                  trades_sorted |-> trades_sorted,
                  total_external_cash |->
                      total_external_cash_of(Deref(objects, trades_sorted)),
                  crypto_assets |-> crypto_assets_of(Deref(objects, trades_sorted)),
                  pa |-> <<>>]]
    /\ UNCHANGED <<trades, call, ledger, proj_rows, proj, objects, form, uuids, data_files, price_cache, clock>>

\* lines 190-240: one iteration of `for asset in crypto_assets`; the lots its
\* cost-basis call creates are dropped when the iteration ends
m_asset(p) ==
    /\ running[p].pc = "assets"
    /\ LET me == running[p]
       IN  /\ Len(me.pa) < Len(me.crypto_assets)
           /\ \E e \in {asset_metrics(Deref(objects, me.trades_sorted), "fifo",
                                      me.crypto_assets[Len(me.pa) + 1], None)} :
                  running' = [running EXCEPT ![p] =
                      IF e.exc # "none"
                      THEN [pc |-> "done", fn |-> me.fn, asset |-> me.asset, lots |-> <<>>,
                            out |-> [exc |-> e.exc]]
                      ELSE [me EXCEPT !.pa = Append(@, e)]]
    /\ UNCHANGED <<trades, call, ledger, proj_rows, proj, objects, form, uuids, data_files, price_cache, clock>>

\* lines 242-280: the cash replay, the totals and the return
m_totals(p) ==
    /\ running[p].pc = "assets"
    /\ LET me == running[p]
       IN  /\ Len(me.pa) = Len(me.crypto_assets)
           /\ \E r \in {metrics_result(Deref(objects, me.trades_sorted), me.crypto_assets,
                                       me.pa, me.total_external_cash)} :
                  running' = [running EXCEPT ![p] =
                      [pc |-> "done", fn |-> me.fn, asset |-> me.asset, lots |-> <<>>,
                       out |-> r.out]]
    /\ UNCHANGED <<trades, call, ledger, proj_rows, proj, objects, form, uuids, data_files, price_cache, clock>>

ConcurrentTemplates ==
    { <<"BTC", "BUY", 2, 3, 1>>, <<"BTC", "SELL", 3, 5, 1>>, <<"USD", "Deposit", 10, 0, 0>> }

InitConcurrent ==
    /\ trades = <<>>
    /\ call = NoCall
    /\ ledger = <<>>
    /\ proj_rows = <<>>
    /\ proj = [ran |-> FALSE]
    /\ objects = <<>>
    /\ running = [p \in Calls |-> Idle]
    /\ form = <<>>
    /\ uuids = 0
    /\ data_files = <<>>
    /\ price_cache = <<>>
    /\ clock = <<>>

NextConcurrent ==
    \/ \E tpl \in ConcurrentTemplates :
          AppendConcurrent(FromTemplate(tpl, Id(Len(trades) + 1), DateOf(Len(trades) + 1)))
    \/ \E p \in Calls, fn \in Methods \cup {"metrics"} : begin(p, fn, "BTC")
    \/ \E p \in Calls : cb_sort(p)
    \/ \E p \in Calls : cb_for(p)
    \/ \E p \in Calls : cb_while(p)
    \/ \E p \in Calls : m_sort(p)
    \/ \E p \in Calls : m_asset(p)
    \/ \E p \in Calls : m_totals(p)

SpecConcurrent == InitConcurrent /\ [][NextConcurrent]_vars

-----------------------------------------------------------------------------
(* legacy_crypto_tracker.py and ui/dialogs.py: the handlers that change      *)
(* self.data["trades"]. A handler that raises shows a message box and leaves *)
(* the ledger and the form as they were.                                      *)

MaxUuids == 2

\* config/constants.py, the assets of the model
TRANSACTION_ASSETS == <<"USD", "BTC">>
TRADE_TYPES_CRYPTO == <<"BUY", "SELL", "Holding", "Transfer">>
TRADE_TYPES_USD == <<"Deposit", "Withdrawal">>

Elems(s) == {s[i] : i \in 1..Len(s)}

\* self.data["settings"]["fee_structure"]: one exchange of DEFAULT_EXCHANGES
fee_structure == [e \in {"Binance"} |-> [maker |-> Rat(1, 10), taker |-> Rat(1, 10)]]

\* get_accounts(self.data)
accounts == <<[id |-> "acc1", name |-> "Main"]>>

\* round(x, 8), ties to even
round8(x) ==
    IF 100000000 % x[2] = 0 THEN x
    ELSE LET n == x[1] * 100000000
             q == n \div x[2]
             r == n % x[2]
         IN  IF 2 * r < x[2] THEN Rat(q, 100000000)
             ELSE IF 2 * r > x[2] THEN Rat(q + 1, 100000000)
             ELSE Rat(q + (q % 2), 100000000)

\* datetime.now(): the clock advances with the ids drawn
datetime_now == <<2024, 1, 1, 0, 0, uuids + 1>>

\* lines 1334-1342: the form as created
NewForm == [asset_var |-> "BTC", trade_type_var |-> "BUY", type_values |-> TRADE_TYPES_CRYPTO]

\* Writing a Tk variable runs its trace callback before the write returns
\* (lines 1391-1392). The assets of the model are upper case without blanks, which
\* .strip().upper() leaves as they are.
RECURSIVE asset_var_set(_, _)
RECURSIVE trade_type_var_set(_, _)

\* lines 1345-1356
sync_asset_type(f) ==
    LET types_ok == IF f.asset_var = "USD" THEN TRADE_TYPES_USD ELSE TRADE_TYPES_CRYPTO
        g == IF f.trade_type_var \notin Elems(types_ok)
             THEN trade_type_var_set(f, types_ok[1])
             ELSE f
    IN  [g EXCEPT !.type_values = types_ok]

\* lines 1357-1368
sync_type_asset(f) ==
    IF f.trade_type_var \in Elems(TRADE_TYPES_USD)
    THEN LET g == IF f.asset_var # "USD" THEN asset_var_set(f, "USD") ELSE f
         IN  [g EXCEPT !.type_values = TRADE_TYPES_USD]
    ELSE LET g == IF f.asset_var = "USD" THEN asset_var_set(f, "BTC") ELSE f
         IN  [g EXCEPT !.type_values = TRADE_TYPES_CRYPTO]

asset_var_set(f, a) == sync_asset_type([f EXCEPT !.asset_var = a])

trade_type_var_set(f, t) == sync_type_asset([f EXCEPT !.trade_type_var = t])

\* lines 2392-2416; the method raises KeyError on a trade without asset, date, type or
\* quantity
get_available_quantity(trade_list, asset) ==
    IF asset = "USD"
    THEN LET metrics == compute_portfolio_metrics(trade_list, "average", NoPrices).out
         IN  IF metrics.exc # "none" THEN [exc |-> metrics.exc]
             ELSE Return(IF RGt(metrics.usd_balance, Zero) THEN metrics.usd_balance ELSE Zero)
    ELSE IF \E i \in 1..Len(trade_list) : "asset" \notin DOMAIN trade_list[i]
    THEN [exc |-> "KeyError"]
    ELSE LET OfAsset(t) == t.asset = asset
             asset_trades == SelectSeq(trade_list, OfAsset)
             Signed(t) == IF t.type \in {"BUY", "Transfer"} THEN t.quantity
                          ELSE IF t.type \in {"SELL", "Holding"} THEN RSub(Zero, t.quantity)
                          ELSE Zero
             qty == Sum([ix \in 1..Len(asset_trades) |-> Signed(asset_trades[ix])])
         IN  IF \E i \in 1..Len(asset_trades) :
                    {"date", "type", "quantity"} \ DOMAIN asset_trades[i] # {}
             THEN [exc |-> "KeyError"]
             ELSE Return(IF RGt(qty, Zero) THEN qty ELSE Zero)

\* lines 2276-2354: the checks of add_trade on the form's fields; the result is the
\* Faulty variant: a SELL or Withdrawal is not compared with the available amount.
add_trade_fields_any_amount(available, asset, trade_type, price_str, qty_str, exchange, order_type, account_name) ==
    LET is_usd_fiat == asset = "USD" /\ trade_type \in {"Deposit", "Withdrawal"}
        is_transfer_holding == trade_type \in {"Transfer", "Holding"}
        p == float_of(price_str)
        q == float_of(qty_str)
        price == IF is_usd_fiat THEN Zero ELSE p.value
        qty == IF is_usd_fiat THEN p.value ELSE q.value
        fee_rate == IF order_type \in DOMAIN fee_structure[exchange]
                    THEN fee_structure[exchange][order_type]
                    ELSE fee_structure[exchange].maker
        total_amount == IF is_usd_fiat THEN qty ELSE RMul(price, qty)
        fee == IF is_usd_fiat \/ is_transfer_holding THEN Zero
               ELSE RMul(total_amount, RDiv(fee_rate, Hundred))
        Named(acc) == acc.name = account_name
        selected == SelectSeq(accounts, Named)
    IN  IF is_usd_fiat /\ (price_str = <<>> \/ p.exc # "none") THEN ValueError
        ELSE IF is_usd_fiat /\ RLe(p.value, Zero) THEN ValueError
        ELSE IF ~is_usd_fiat /\ (asset = "" \/ price_str = <<>> \/ qty_str = <<>>)
        THEN ValueError
        ELSE IF ~is_usd_fiat /\ (p.exc # "none" \/ q.exc # "none") THEN ValueError
        ELSE IF ~is_usd_fiat /\ (RLe(price, Zero) \/ RLe(qty, Zero)) THEN ValueError
        ELSE IF ~is_usd_fiat /\ trade_type = "Holding" /\ available.exc # "none"
        THEN [exc |-> available.exc]
        ELSE IF ~is_usd_fiat /\ trade_type = "Holding" /\ RGt(qty, available.value)
        THEN ValueError
        ELSE IF ~is_usd_fiat /\ ~is_transfer_holding /\ exchange \notin DOMAIN fee_structure
        THEN ValueError
        ELSE IF (trade_type = "SELL" \/ (asset = "USD" /\ trade_type = "Withdrawal"))
                /\ available.exc # "none"
        THEN [exc |-> available.exc]
        ELSE IF account_name = "" \/ selected = <<>> THEN ValueError
        ELSE Return([asset |-> asset, type |-> trade_type, price |-> round8(price),
                     quantity |-> qty,
                     exchange |-> IF is_usd_fiat THEN "" ELSE exchange,
                     order_type |-> IF is_usd_fiat \/ is_transfer_holding THEN ""
                                    ELSE order_type,
                     fee |-> round8(fee), total_value |-> round8(total_amount),
                     account_id |-> selected[1].id])

\* validated entry without id and date, or the exception. `available` is the result
\* of self.get_available_quantity(asset)
add_trade_fields(available, asset, trade_type, price_str, qty_str, exchange, order_type, account_name) ==
    LET is_usd_fiat == asset = "USD" /\ trade_type \in {"Deposit", "Withdrawal"}
        is_transfer_holding == trade_type \in {"Transfer", "Holding"}
        p == float_of(price_str)
        q == float_of(qty_str)
        price == IF is_usd_fiat THEN Zero ELSE p.value
        qty == IF is_usd_fiat THEN p.value ELSE q.value
        fee_rate == IF order_type \in DOMAIN fee_structure[exchange]
                    THEN fee_structure[exchange][order_type]
                    ELSE fee_structure[exchange].maker
        total_amount == IF is_usd_fiat THEN qty ELSE RMul(price, qty)
        fee == IF is_usd_fiat \/ is_transfer_holding THEN Zero
               ELSE RMul(total_amount, RDiv(fee_rate, Hundred))
        Named(acc) == acc.name = account_name
        selected == SelectSeq(accounts, Named)
    IN  IF is_usd_fiat /\ (price_str = <<>> \/ p.exc # "none") THEN ValueError
        ELSE IF is_usd_fiat /\ RLe(p.value, Zero) THEN ValueError
        ELSE IF ~is_usd_fiat /\ (asset = "" \/ price_str = <<>> \/ qty_str = <<>>)
        THEN ValueError
        ELSE IF ~is_usd_fiat /\ (p.exc # "none" \/ q.exc # "none") THEN ValueError
        ELSE IF ~is_usd_fiat /\ (RLe(price, Zero) \/ RLe(qty, Zero)) THEN ValueError
        ELSE IF ~is_usd_fiat /\ trade_type = "Holding" /\ available.exc # "none"
        THEN [exc |-> available.exc]
        ELSE IF ~is_usd_fiat /\ trade_type = "Holding" /\ RGt(qty, available.value)
        THEN ValueError
        ELSE IF ~is_usd_fiat /\ ~is_transfer_holding /\ exchange \notin DOMAIN fee_structure
        THEN ValueError
        ELSE IF (trade_type = "SELL" \/ (asset = "USD" /\ trade_type = "Withdrawal"))
                /\ available.exc # "none"
        THEN [exc |-> available.exc]
        ELSE IF (trade_type = "SELL" \/ (asset = "USD" /\ trade_type = "Withdrawal"))
                /\ RGt(qty, available.value)
        THEN ValueError
        ELSE IF account_name = "" \/ selected = <<>> THEN ValueError
        ELSE Return([asset |-> asset, type |-> trade_type, price |-> round8(price),
                     quantity |-> qty,
                     exchange |-> IF is_usd_fiat THEN "" ELSE exchange,
                     order_type |-> IF is_usd_fiat \/ is_transfer_holding THEN ""
                                    ELSE order_type,
                     fee |-> round8(fee), total_value |-> round8(total_amount),
                     account_id |-> selected[1].id])

\* the user picks an asset in asset_combo (line 1335)
select_asset(a) ==
    /\ form' = asset_var_set(form, a)
    /\ UNCHANGED <<trades, call, ledger, proj_rows, proj, objects, running, uuids, data_files, price_cache, clock>>

\* the user picks a type among the values type_combo shows (line 1341)
select_type(t) ==
    /\ t \in Elems(form.type_values)
    /\ form' = trade_type_var_set(form, t)
    /\ UNCHANGED <<trades, call, ledger, proj_rows, proj, objects, running, uuids, data_files, price_cache, clock>>

\* add_trade (lines 2273-2390) with the price, quantity, exchange, order type and
\* account fields as given
add_trade(price_str, qty_str, exchange, order_type, account_name) ==
    /\ Len(ledger) < MaxLedger
    /\ uuids < MaxUuids
    /\ \E available \in {get_available_quantity(ledger, form.asset_var)} :
       \E r \in {add_trade_fields(available, form.asset_var, form.trade_type_var, price_str,
                                   qty_str, exchange, order_type, account_name)} :
          IF r.exc # "none"
          THEN UNCHANGED <<ledger, form, uuids, data_files, price_cache, clock>>
          ELSE /\ ledger' = Append(ledger,
                       [k \in DOMAIN r.value \cup {"id", "date"} |->
                           IF k = "id" THEN uuid4(uuids + 1)
                           ELSE IF k = "date" THEN strftime(datetime_now)
                           ELSE r.value[k]])
               /\ uuids' = uuids + 1
               /\ form' = asset_var_set(form, "BTC")
    /\ UNCHANGED <<trades, call, proj_rows, proj, objects, running, data_files, price_cache, clock>>

\* the first trade of the ledger with the id of row i of the transactions table
\* (edit_trade line 2497), 0 when the row has no id
first_with_id_of(i) ==
    IF "id" \notin DOMAIN ledger[i] \/ ledger[i].id = <<>> THEN 0
    ELSE CHOOSE j \in 1..Len(ledger) :
            /\ Get(ledger[j], "id") = ledger[i].id
            /\ \A k \in 1..(j - 1) : Get(ledger[k], "id") # ledger[i].id

\* lines 2514-2519: the date and time fields of the dialog as it opens
dialog_datetime(trade) ==
    IF "date" \in DOMAIN trade /\ strptime(trade.date).exc = "none"
    THEN strftime(strptime(trade.date).value)
    ELSE strftime(datetime_now)

\* line 2558: the exchanges of the dialog's platform combo box
exchanges == <<"Binance">>

\* lines 2582-2593: the account the dialog shows for the trade
account_of(trade) ==
    LET Mine(acc) == acc.id = GetOr(trade, "account_id", "")
        current == SelectSeq(accounts, Mine)
    IN  IF current = <<>> THEN "" ELSE current[1].name

\* lines 2537-2540: the values of the dialog's type combo box
dialog_type_values(trade) ==
    IF trade.asset = "USD" THEN TRADE_TYPES_USD ELSE TRADE_TYPES_CRYPTO

\* lines 2599-2651: the checks of save_edit; the result is the fields to store.
\* `parsed` is datetime.strptime(new_date_str, "%Y-%m-%d %H:%M:%S") and `available`
\* the result of self.get_available_quantity(asset)
save_edit_fields(available, new_date_str, parsed, asset, trade_type, price_var, qty_var, exchange_var, order_type_var, account_name) ==
    LET is_usd_fiat == asset = "USD" /\ trade_type \in {"Deposit", "Withdrawal"}
        is_transfer_holding == trade_type \in {"Transfer", "Holding"}
        price == IF is_usd_fiat THEN Zero ELSE price_var
        qty == IF is_usd_fiat THEN price_var ELSE qty_var
        fee_rate == IF order_type_var \in DOMAIN fee_structure[exchange_var]
                    THEN fee_structure[exchange_var][order_type_var]
                    ELSE fee_structure[exchange_var].maker
        total_amount == IF is_usd_fiat THEN qty ELSE RMul(price, qty)
        fee == IF is_usd_fiat \/ is_transfer_holding THEN Zero
               ELSE RMul(total_amount, RDiv(fee_rate, Hundred))
        Named(acc) == acc.name = account_name
        selected == SelectSeq(accounts, Named)
    IN  IF parsed.exc # "none" THEN ValueError
        ELSE IF is_usd_fiat /\ RLe(price_var, Zero) THEN ValueError
        ELSE IF ~is_usd_fiat /\ (asset = "" \/ RLe(price, Zero) \/ RLe(qty, Zero))
        THEN ValueError
        ELSE IF ~is_usd_fiat /\ trade_type = "Holding" /\ available.exc # "none"
        THEN [exc |-> available.exc]
        ELSE IF ~is_usd_fiat /\ trade_type = "Holding" /\ RGt(qty, available.value)
        THEN ValueError
        ELSE IF ~is_usd_fiat /\ ~is_transfer_holding /\ exchange_var \notin DOMAIN fee_structure
        THEN ValueError
        ELSE IF account_name = "" \/ selected = <<>> THEN ValueError
        ELSE Return([asset |-> asset, type |-> trade_type, price |-> round8(price),
                     quantity |-> qty, date |-> new_date_str,
                     exchange |-> IF is_usd_fiat THEN "" ELSE exchange_var,
                     order_type |-> IF is_usd_fiat \/ is_transfer_holding THEN ""
                                    ELSE order_type_var,
                     fee |-> round8(fee), total_value |-> round8(total_amount),
                     account_id |-> selected[1].id])

\* lines 2654-2668: the fields are assigned to the trade dict and the old client
\* fields are popped
edited(trade, fields) ==
    [k \in (DOMAIN trade \cup DOMAIN fields)
            \ {"is_client_trade", "client_name", "client_percentage"} |->
        IF k \in DOMAIN fields THEN fields[k] ELSE trade[k]]

\* edit_trade (lines 2490-2684) on row i of the transactions table: the dialog opens
\* on the trade, the user sets the asset, the type (among the values of the type
\* combo box) and the exchange, and accepts
save_edit(i) ==
    /\ i \in 1..Len(ledger)
    /\ first_with_id_of(i) # 0
    /\ \E j \in {first_with_id_of(i)} :
       \E trade \in {ledger[j]} :
          /\ {"asset", "type", "quantity", "price"} \subseteq DOMAIN trade
          /\ \E new_date_str \in {dialog_datetime(trade)} :
             \E parsed \in {strptime(new_date_str)} :
             \E asset \in Elems(TRANSACTION_ASSETS) :
             \E available \in {get_available_quantity(ledger, asset)} :
             \E trade_type \in Elems(dialog_type_values(trade)),
                exchange_var \in Elems(exchanges) \cup {GetOr(trade, "exchange", "")} :
             \E r \in {save_edit_fields(
                            available, new_date_str, parsed, asset, trade_type,
                            IF trade.asset = "USD" /\ trade.type \in {"Deposit", "Withdrawal"}
                            THEN trade.quantity ELSE trade.price,
                            trade.quantity, exchange_var,
                            IF GetOr(trade, "order_type", "") = "" THEN "maker"
                            ELSE trade.order_type,
                            account_of(trade))} :
                IF r.exc # "none" THEN UNCHANGED ledger
                ELSE ledger' = [ledger EXCEPT ![j] = edited(trade, r.value)]
    /\ UNCHANGED <<trades, call, proj_rows, proj, objects, running, form, uuids, data_files, price_cache, clock>>

\* delete_trade (lines 2686-2702) on row i of the transactions table, confirmed
delete_trade(i) ==
    /\ i \in 1..Len(ledger)
    /\ "id" \in DOMAIN ledger[i] /\ ledger[i].id # <<>>
    /\ LET Kept(t) == Get(t, "id") # ledger[i].id
       IN  ledger' = SelectSeq(ledger, Kept)
    /\ UNCHANGED <<trades, call, proj_rows, proj, objects, running, form, uuids, data_files, price_cache, clock>>

\* ui/dialogs.py lines 356-364: the fields import_trades adds to trade k of the file;
\* n ids were drawn before it
imported_trade(trade, n) ==
    [k \in DOMAIN trade \cup {"id", "is_client_trade", "client_name", "client_percentage"} |->
        IF k \in DOMAIN trade THEN trade[k]
        ELSE IF k = "id" THEN uuid4(n + 1)
        ELSE IF k = "is_client_trade" THEN FALSE
        ELSE IF k = "client_name" THEN <<>>
        ELSE Zero]

\* the number of trades without id among the first k of the file
RECURSIVE drawn(_, _)
drawn(file_trades, k) ==
    IF k = 0 THEN 0
    ELSE drawn(file_trades, k - 1) + (IF "id" \in DOMAIN file_trades[k] THEN 0 ELSE 1)

\* ui/dialogs.py import_trades (lines 346-377) on the JSON object `file`
import_trades(file) ==
    /\ IF "trades" \notin DOMAIN file
       THEN UNCHANGED <<ledger, uuids>>
       ELSE /\ Len(ledger) + Len(file.trades) <= MaxLedger
            /\ uuids + drawn(file.trades, Len(file.trades)) <= MaxUuids
            /\ ledger' = ledger \o [k \in 1..Len(file.trades) |->
                                      imported_trade(file.trades[k],
                                                     uuids + drawn(file.trades, k - 1))]
            /\ uuids' = uuids + drawn(file.trades, Len(file.trades))
    /\ UNCHANGED <<trades, call, proj_rows, proj, objects, running, form, data_files, price_cache, clock>>

\* export_trades (ui/dialogs.py lines 326-336): the file written for the ledger
exported == [trades |-> ledger, export_date |-> strftime(datetime_now)]

\* a file written by hand: one trade without id
ForeignFile ==
    [trades |-> <<Without(FromTemplate(<<"BTC", "BUY", 1, 4, 0>>, <<>>, DateOf(0)), {"id"})>>]

\* a JSON object without the "trades" key
NoTradesFile == [export_date |-> DateOf(0)]

\* the file the user picks in the dialog of import_trades
picked(name) ==
    IF name = "export.json" THEN exported
    ELSE IF name = "foreign.json" THEN ForeignFile
    ELSE NoTradesFile

ImportFiles == {"export.json", "foreign.json", "notes.json"}

PriceStrs == { <<51>>, <<48>>, <<>> }
QtyStrs == { <<50>>, <<48>> }

InitLedger ==
    /\ trades = <<>>
    /\ call = NoCall
    /\ ledger = <<>>
    /\ proj_rows = <<>>
    /\ proj = [ran |-> FALSE]
    /\ objects = <<>>
    /\ running = <<>>
    /\ form = NewForm
    /\ uuids = 0
    /\ data_files = <<>>
    /\ price_cache = <<>>
    /\ clock = <<>>

NextEntry ==
    \/ \E a \in Elems(TRANSACTION_ASSETS) : select_asset(a)
    \/ \E t \in Elems(TRADE_TYPES_CRYPTO) \cup Elems(TRADE_TYPES_USD) : select_type(t)
    \/ \E price_str \in PriceStrs, qty_str \in QtyStrs, account_name \in {"Main", ""} :
          add_trade(price_str, qty_str, "Binance", "maker", account_name)
    \/ \E i \in 1..MaxLedger : save_edit(i)

SpecEntry == InitLedger /\ [][NextEntry]_vars

NextLedger ==
    \/ NextEntry
    \/ \E i \in 1..MaxLedger : delete_trade(i)
    \/ \E name \in ImportFiles : import_trades(picked(name))

SpecLedger == InitLedger /\ [][NextLedger]_vars

(* The entry form alone: ledgers built by add_trade.                        *)
NextAddTrade ==
    \/ \E a \in Elems(TRANSACTION_ASSETS) : select_asset(a)
    \/ \E t \in Elems(TRADE_TYPES_CRYPTO) \cup Elems(TRADE_TYPES_USD) : select_type(t)
    \/ \E price_str \in PriceStrs, qty_str \in QtyStrs, account_name \in {"Main", ""} :
          add_trade(price_str, qty_str, "Binance", "maker", account_name)

SpecAddTrade == InitLedger /\ [][NextAddTrade]_vars

-----------------------------------------------------------------------------
(* Storage: services/storage.py and the load_portfolio entry point of     *)
(* app.py.  A JSON object is a function from its keys, a JSON array a      *)
(* sequence; a file is [exists |-> FALSE] or [exists |-> TRUE, content].   *)
(* The uuid4() values drawn during one load are uuid4(1), uuid4(2), ...    *)
(* in the order of the draws.                                               *)

\* config/constants.py lines 23-31
DEFAULT_EXCHANGES ==
    ("Bitstamp" :> [maker |-> Rat(3, 10), taker |-> Rat(2, 5)])
    @@ ("Wallet" :> [maker |-> Zero, taker |-> Zero])
    @@ ("Binance" :> [maker |-> Rat(1, 10), taker |-> Rat(1, 10)])
    @@ ("Coinbase Pro" :> [maker |-> Rat(2, 5), taker |-> Rat(3, 5)])
    @@ ("Kraken" :> [maker |-> Rat(1, 4), taker |-> Rat(2, 5)])
    @@ ("Bybit" :> [maker |-> Rat(1, 10), taker |-> Rat(1, 10)])
    @@ ("Crypto.com" :> [maker |-> Rat(1, 4), taker |-> Rat(1, 2)])

\* config/constants.py line 16
DATA_FILE == "crypto_data.json"

Usernames == {"Default", "Alice"}

\* storage.py line 23: username.lower().replace(" ", "_") for the usernames of the
\* model
safe_name(username) ==
    CASE username = "Default" -> "default"
      [] username \in {"Alice", "alice"} -> "alice"
      [] username \in {"a b", "a_b"} -> "a_b"

\* storage.py lines 21-24
get_user_data_file(username) == "crypto_data_" \o safe_name(username) \o ".json"

NoFile == [exists |-> FALSE]

FileOf(content) == [exists |-> TRUE, content |-> content]

\* storage.py lines 71-80, for fee entries that are JSON objects
migrate_exchange_fees(old_exchanges) ==
    [exchange \in DOMAIN old_exchanges |->
        LET fee == old_exchanges[exchange]
            f == IF GetOr(fee, "maker", Zero) # Zero THEN fee.maker
                 ELSE GetOr(fee, "taker", Zero)
        IN  IF {"maker", "taker"} \subseteq DOMAIN fee THEN fee
            ELSE [maker |-> f, taker |-> f]]

\* storage.py lines 83-90
create_account_group_in_data(data, name, group_id) ==
    LET group == [id |-> group_id, name |-> name, accounts |-> <<>>]
    IN  DictSet(data, "account_groups", GetOr(data, "account_groups", <<>>) \o <<group>>)

\* storage.py lines 93-115
create_account_in_data(data, name, group_id, account_id) ==
    LET account == [id |-> account_id, name |-> name, account_group_id |-> group_id,
                    created_date |-> strftime(datetime_now)]
        d1 == DictSet(data, "accounts", GetOr(data, "accounts", <<>>) \o <<account>>)
        groups == GetOr(d1, "account_groups", <<>>)
        hit == {i \in 1..Len(groups) : Get(groups[i], "id") = group_id}
        first == CHOOSE i \in hit : \A j \in hit : i <= j
        members(group) == GetOr(group, "accounts", <<>>)
        join(group) ==
            IF \E k \in 1..Len(members(group)) : members(group)[k] = account_id THEN group
            ELSE DictSet(group, "accounts", members(group) \o <<account_id>>)
    IN  IF group_id # None /\ "account_groups" \in DOMAIN d1 /\ hit # {}
        THEN DictSet(d1, "account_groups", [groups EXCEPT ![first] = join(@)])
        ELSE d1

\* The value of a one-element set
Only(S) == CHOOSE x \in S : TRUE

\* storage.py lines 120-123
migrate_lists(data) == data @@ [account_groups |-> <<>>, accounts |-> <<>>]

\* storage.py lines 129-136, after the default group and account were created
migrate_default_account(data, default_account_id) ==
    LET assign(trade) ==
            Without(DictSet(trade, "account_id", default_account_id),
                    {"is_client_trade", "client_name", "client_percentage"})
        settings == DictSet(GetOr(data, "settings", <<>>), "default_account_id",
                            default_account_id)
    IN  IF "trades" \in DOMAIN data
        THEN DictSet(DictSet(data, "settings", settings), "trades",
                     [i \in 1..Len(data.trades) |-> assign(data.trades[i])])
        ELSE DictSet(data, "settings", settings)

\* storage.py lines 125-136
migrate_accounts(data) ==
    IF data.accounts = <<>>
    THEN Only({migrate_default_account(d2, uuid4(2)) :
               d2 \in {create_account_in_data(d1, "Main", uuid4(1), uuid4(2)) :
                       d1 \in {create_account_group_in_data(data, "My Portfolio", uuid4(1))}}})
    ELSE data

\* storage.py lines 138-147
migrate_client(data) ==
    LET d1 == IF "settings" \in DOMAIN data THEN data ELSE DictSet(data, "settings", <<>>)
        is_client_trade(t) == GetOr(t, "is_client_trade", FALSE)
        client_trades == SelectSeq(data.trades, is_client_trade)
    IN  IF "trades" \in DOMAIN data /\ "is_client" \notin DOMAIN d1.settings
        THEN IF client_trades # <<>>
             THEN DictSet(d1, "settings",
                          DictSet(DictSet(d1.settings, "is_client", TRUE),
                                  "client_percentage",
                                  GetOr(client_trades[1], "client_percentage", Zero)))
             ELSE d1
        ELSE d1

\* storage.py lines 118-149
migrate_to_account_structure(data) ==
    Only({migrate_client(d2) : d2 \in {migrate_accounts(d1) : d1 \in {migrate_lists(data)}}})

\* storage.py lines 181-199
get_default_data ==
    LET default_data ==
            [trades |-> <<>>,
             settings |-> [default_exchange |-> "Bitstamp",
                           fee_structure |-> DEFAULT_EXCHANGES,
                           cost_basis_method |-> "average",
                           is_client |-> FALSE,
                           client_percentage |-> Zero,
                           default_account_id |-> None],
             account_groups |-> <<>>,
             accounts |-> <<>>]
        d1 == create_account_group_in_data(default_data, "My Portfolio", uuid4(1))
        d2 == create_account_in_data(d1, "Main", uuid4(1), uuid4(2))
    IN  [d2 EXCEPT !.settings.default_account_id = uuid4(2)]

\* storage.py lines 221-229: ids and accounts for the trades that lack them;
\* uuid_count is the number of uuid4() values drawn before the loop
load_trades(data, uuid_count) ==
    LET ts == data.trades
        lacking(i) == Cardinality({j \in 1..i : "id" \notin DOMAIN ts[j]})
        with_id(i) == IF "id" \in DOMAIN ts[i] THEN ts[i]
                      ELSE DictSet(ts[i], "id", uuid4(uuid_count + lacking(i)))
        with_account(t) ==
            IF "account_id" \in DOMAIN t THEN t
            ELSE IF GetOr(data, "accounts", <<>>) # <<>>
                 THEN DictSet(t, "account_id", data.accounts[1].id)
                 ELSE DictSet(t, "account_id", None)
    IN  [i \in 1..Len(ts) |-> with_account(with_id(i))]

\* storage.py lines 234-243: the settings defaults; f @@ g keeps the entries
\* of f and adds those of g whose key f lacks
load_settings(settings) ==
    DictSet(settings @@ [is_client |-> FALSE, client_percentage |-> Zero,
                         default_account_id |-> None],
            "fee_structure",
            GetOr(settings, "fee_structure", DEFAULT_EXCHANGES)
                @@ ("Bitstamp" :> [maker |-> Rat(3, 10), taker |-> Rat(2, 5)])
                @@ ("Wallet" :> [maker |-> Zero, taker |-> Zero]))

\* storage.py lines 217-218
load_fees(json) ==
    IF "settings" \in DOMAIN json /\ "fee_structure" \in DOMAIN json.settings
    THEN DictSet(json, "settings",
                 DictSet(json.settings, "fee_structure",
                         migrate_exchange_fees(json.settings.fee_structure)))
    ELSE json

\* storage.py lines 230-245
load_defaults(data) ==
    LET settings == IF "settings" \notin DOMAIN data THEN <<>>
                    ELSE data.settings @@ [cost_basis_method |-> "average"]
    IN  DictSet(data, "settings", load_settings(settings))
            @@ [account_groups |-> <<>>, accounts |-> <<>>]

\* storage.py lines 214-245: the file exists and holds the JSON object json;
\* two uuid4() values were drawn before the trades' ids when the migration
\* created the default group and account
load_json(json) ==
    Only({load_defaults(d3) :
          d3 \in {IF "trades" \in DOMAIN d2
                  THEN DictSet(d2, "trades",
                               load_trades(d2, IF GetOr(d1, "accounts", <<>>) = <<>>
                                               THEN 2 ELSE 0))
                  ELSE d2 :
                  d1 \in {load_fees(json)}, d2 \in {migrate_to_account_structure(load_fees(json))}}})

\* storage.py lines 202-249; copy_ok: shutil.copy did not raise OSError.
\* The result is the files after the call and the value returned.
load_data(files, username, copy_ok) ==
    LET data_file == get_user_data_file(username)
        copied == IF /\ username = "Default"
                     /\ files[DATA_FILE].exists
                     /\ ~files[data_file].exists
                     /\ copy_ok
                  THEN [files EXCEPT ![data_file] = files[DATA_FILE]]
                  ELSE files
    IN  [files |-> copied,
         out |-> IF copied[data_file].exists THEN Return(load_json(copied[data_file].content))
                 ELSE Return(get_default_data)]

\* JSON members a data file may hold
FileTrade == [asset |-> "BTC", type |-> "BUY", quantity |-> R(1), price |-> R(2)]

FileTrades ==
    {<<>>,
     <<FileTrade>>,
     <<DictSet(DictSet(FileTrade, "id", <<116, 49>>), "is_client_trade", TRUE), FileTrade>>}

FileSettings ==
    {<<>>,
     [fee_structure |-> [Kraken |-> [maker |-> Rat(1, 4)]]],
     [cost_basis_method |-> "fifo", is_client |-> FALSE]}

FileAccounts ==
    {<<>>, <<[id |-> <<97, 49>>, name |-> "Main", account_group_id |-> <<103, 49>>]>>}

FileGroups == {<<>>, <<[id |-> <<103, 49>>, name |-> "Old", accounts |-> <<>>]>>}

\* The JSON objects over the four keys: each key absent or present with one
\* of the members above
Member(key, values) == {<<>>} \cup {[k \in {key} |-> v] : v \in values}

JsonObjects ==
    {t @@ s @@ a @@ g :
        t \in Member("trades", FileTrades), s \in Member("settings", FileSettings),
        a \in Member("accounts", FileAccounts), g \in Member("account_groups", FileGroups)}

LegacyFiles == {NoFile, FileOf(<<>>), FileOf([trades |-> <<FileTrade>>])}

\* app.py lines 15-26
load_portfolio(username, copy_ok) ==
    /\ \E r \in {load_data(data_files, username, copy_ok)} :
        /\ call' = [fn |-> "load_portfolio", username |-> username, out |-> r.out]
        /\ data_files' = r.files
    /\ UNCHANGED <<trades, ledger, proj_rows, proj, objects, running, form, uuids, price_cache, clock>>

\* storage.py lines 252-256: the loaded data is written back to the user's file
save_data ==
    /\ call.fn = "load_portfolio"
    /\ call.out.exc = "none"
    /\ data_files' = [data_files EXCEPT ![get_user_data_file(call.username)] =
                          FileOf(call.out.value)]
    /\ UNCHANGED <<trades, call, ledger, proj_rows, proj, objects, running, form, uuids, price_cache, clock>>

InitStorage ==
    /\ trades = <<>>
    /\ call = NoCall
    /\ ledger = <<>>
    /\ proj_rows = <<>>
    /\ proj = [ran |-> FALSE]
    /\ objects = <<>>
    /\ running = <<>>
    /\ form = <<>>
    /\ uuids = 0
    /\ price_cache = <<>>
    /\ clock = <<>>
    /\ \E legacy \in LegacyFiles, mine \in {NoFile} \cup {FileOf(j) : j \in JsonObjects},
          other \in {NoFile, FileOf(<<>>)} :
        data_files = (DATA_FILE :> legacy) @@ ("crypto_data_default.json" :> mine)
                     @@ ("crypto_data_alice.json" :> other)

NextStorage ==
    \/ \E username \in Usernames, copy_ok \in BOOLEAN : load_portfolio(username, copy_ok)
    \/ save_data

SpecStorage == InitStorage /\ [][NextStorage]_vars

-----------------------------------------------------------------------------
(* The dashboard's trades table: the realized P&L column next to the        *)
(* portfolio metrics, both under the cost-basis method of the settings.     *)

\* legacy_crypto_tracker.py lines 2959-2962 with the metrics of line 2432
update_dashboard(method) ==
    /\ call = NoCall
    /\ \E r \in {compute_realized_pnl_per_trade(trades, method)},
          m \in {compute_portfolio_metrics(trades, method, NoPrices)} :
          call' = [fn |-> "update_dashboard", method |-> method,
                   realized_pnl |-> r, metrics |-> m.out]
    /\ UNCHANGED <<trades, ledger, proj_rows, proj, objects, running, form, uuids, data_files, price_cache, clock>>

NextDashboard ==
    \/ AppendHistory
    \/ \E method \in Methods : update_dashboard(method)

SpecDashboard == Init /\ [][NextDashboard]_vars

-----------------------------------------------------------------------------
(* Parked units: histories with Holding trades, valued with and without     *)
(* prices.                                                                   *)

\* the k-th trade of a history: a BUY, a SELL or a Holding of BTC, or a Holding
\* of 0.5 ETH (stored by add_trade with total_value = price * quantity)
HoldingTrades(k) ==
    {FromTemplate(tpl, Id(k), DateOf(k)) :
        tpl \in {<<"BTC", "BUY", 2, 3, 0>>, <<"BTC", "SELL", 1, 5, 1>>,
                 <<"BTC", "Holding", 1, 5, 0>>}}
    \cup {[FromTemplate(<<"ETH", "Holding", 1, 4, 0>>, Id(k), DateOf(k))
              EXCEPT !.quantity = Rat(1, 2), !.total_value = R(2)]}

HoldingPrices == {NoPrices, [a \in {"BTC", "ETH"} |-> IF a = "BTC" THEN R(2) ELSE R(5)]}

AppendHolding ==
    \E k \in 1..MaxTrades :
        /\ k = Len(trades) + 1
        /\ \E t \in HoldingTrades(k) : AppendTrade(t, MaxTrades)

NextHolding ==
    \/ AppendHolding
    \/ \E asset \in {"BTC", "ETH"} : CallFifo(asset)
    \/ \E asset \in {"BTC", "ETH"} : CallLifo(asset)
    \/ \E asset \in {"BTC", "ETH"} : CallAverage(asset)
    \/ \E m \in Methods, p \in HoldingPrices : CallMetrics(m, p)

SpecHolding == Init /\ [][NextHolding]_vars

-----------------------------------------------------------------------------
(* services/pricing.py: get_current_price.                                  *)
(* The cache is a dict asset -> entry, an entry a dict with the optional    *)
(* keys price, timestamp and pct_change_24h. fetch_price_and_24h is the     *)
(* network: its result is an input, <<None, None>> when the request failed. *)
(* datetime.now() is the clock; a request is answered within the second of  *)
(* the clock in which it was made, so line 91 reads the time line 80 read.  *)
(* max_age_minutes is a whole number of minutes, so the microseconds of     *)
(* now() do not decide the comparison of line 82.                           *)

\* s.upper() for the asset names of the model
upper(s) == IF s = "usdc" THEN "USDC" ELSE s

\* days before January 1 of year y, and before the first of month m of year y
DaysBeforeYear(y) ==
    (y - 1) * 365 + ((y - 1) \div 4) - ((y - 1) \div 100) + ((y - 1) \div 400)

RECURSIVE DaysBeforeMonth(_, _)
DaysBeforeMonth(y, m) == IF m = 1 THEN 0 ELSE DaysBeforeMonth(y, m - 1) + DaysIn(y, m - 1)

toordinal(dt) == DaysBeforeYear(dt[1]) + DaysBeforeMonth(dt[1], dt[2]) + dt[3]

\* (a - b).total_seconds()
total_seconds(a, b) ==
    (toordinal(a) - toordinal(b)) * 86400
    + (a[4] - b[4]) * 3600 + (a[5] - b[5]) * 60 + (a[6] - b[6])

\* the day after the date of dt, at midnight
NextDay(dt) ==
    IF dt[3] < DaysIn(dt[1], dt[2]) THEN <<dt[1], dt[2], dt[3] + 1, 0, 0, 0>>
    ELSE IF dt[2] < 12 THEN <<dt[1], dt[2] + 1, 1, 0, 0, 0>>
    ELSE <<dt[1] + 1, 1, 1, 0, 0, 0>>

RECURSIVE AddDays(_, _)
AddDays(dt, n) == IF n = 0 THEN dt ELSE AddDays(NextDay(dt), n - 1)

SecondOfDay(dt) == dt[4] * 3600 + dt[5] * 60 + dt[6]

\* dt + timedelta(seconds=n), n >= 0
timedelta_add(dt, n) ==
    [AddDays(dt, (SecondOfDay(dt) + n) \div 86400) EXCEPT
        ![4] = ((SecondOfDay(dt) + n) % 86400) \div 3600,
        ![5] = (((SecondOfDay(dt) + n) % 86400) % 3600) \div 60,
        ![6] = ((SecondOfDay(dt) + n) % 86400) % 60]

\* lines 74-85: [hit |-> TRUE, price |-> entry.get("price")] when the asset has an
\* entry whose timestamp parses and is less than max_age_minutes old; an entry
\* without timestamp, with an empty one or with one strptime rejects is a miss
cached_price(asset, cache, now, max_age_minutes) ==
    IF asset \notin DOMAIN cache THEN [hit |-> FALSE]
    ELSE IF Get(cache[asset], "timestamp") = <<>> THEN [hit |-> FALSE]
    ELSE IF strptime(cache[asset].timestamp).exc # "none" THEN [hit |-> FALSE]
    ELSE IF total_seconds(now, strptime(cache[asset].timestamp).value) < 60 * max_age_minutes
    THEN [hit |-> TRUE, price |-> Get(cache[asset], "price")]
    ELSE [hit |-> FALSE]

\* lines 90-93: the entry written after a fetch that returned a price
fetched_entry(fetch, now) ==
    IF fetch[2] = None THEN [price |-> fetch[1], timestamp |-> strftime(now)]
    ELSE [price |-> fetch[1], timestamp |-> strftime(now), pct_change_24h |-> fetch[2]]

\* The result of a call: the value returned, the cache dict after the call, whether
\* the cache was looked at, whether fetch_price_and_24h was called, the arguments
\* of the calls of save_cache, and the clock when the call returns.
PriceResult(out, cache, read, fetched, saved, now) ==
    [out |-> out, cache |-> cache, read |-> read, fetched |-> fetched, saved |-> saved, now |-> now]

\* Faulty variant: a failed fetch falls back on the price of a stale entry.
get_current_price_stale_fallback(asset, cache, now, fetch, max_age_minutes) ==
    IF upper(asset) = "USDC" THEN PriceResult(R(1), cache, FALSE, FALSE, <<>>, now)
    ELSE IF cached_price(asset, cache, now, max_age_minutes).hit
    THEN PriceResult(cached_price(asset, cache, now, max_age_minutes).price,
                     cache, TRUE, FALSE, <<>>, now)
    ELSE IF fetch[1] # None
    THEN PriceResult(fetch[1],
                     DictSet(cache, asset, fetched_entry(fetch, now)),
                     TRUE, TRUE,
                     <<DictSet(cache, asset, fetched_entry(fetch, now))>>,
                     now)
    ELSE IF asset \in DOMAIN cache
    THEN PriceResult(Get(cache[asset], "price"), cache, TRUE, TRUE, <<>>,
                     now)
    ELSE PriceResult(None, cache, TRUE, TRUE, <<>>, now)

\* lines 67-99
get_current_price(asset, cache, now, fetch, max_age_minutes) ==
    IF upper(asset) = "USDC" THEN PriceResult(R(1), cache, FALSE, FALSE, <<>>, now)
    ELSE IF cached_price(asset, cache, now, max_age_minutes).hit
    THEN PriceResult(cached_price(asset, cache, now, max_age_minutes).price,
                     cache, TRUE, FALSE, <<>>, now)
    ELSE IF fetch[1] # None
    THEN PriceResult(fetch[1],
                     DictSet(cache, asset, fetched_entry(fetch, now)),
                     TRUE, TRUE,
                     <<DictSet(cache, asset, fetched_entry(fetch, now))>>,
                     now)
    ELSE PriceResult(None, cache, TRUE, TRUE, <<>>, now)

PricedAssets == {"BTC", "ETH", "USDC", "usdc"}

\* results of fetch_price_and_24h (lines 36-64): (price, pct_24h), (price, None) or
\* (None, None)
Fetches == { <<None, None>>, <<R(4), None>>, <<R(5), Rat(-1, 2)>> }

\* the default of max_age_minutes, and 0
AgeLimits == {5, 0}

ClockStart == <<2024, 2, 29, 23, 56, 0>>
\* seconds between two readings of the clock by the caller
TickSeconds == 150
\* the clock stops MaxTicks ticks after ClockStart
MaxTicks == 2

\* "2024-02-29T23:56:00": a timestamp of another format
IsoStamp ==
    <<50, 48, 50, 52, 45, 48, 50, 45, 50, 57, 84, 50, 51, 58, 53, 54, 58, 48, 48>>

\* cache entries on disk when the application starts: written at ClockStart or a
\* minute after it, without the price, without timestamp, with a timestamp of
\* another format
StoredEntries ==
    { [price |-> R(3), timestamp |-> strftime(ClockStart)],
      [price |-> R(3), timestamp |-> strftime(timedelta_add(ClockStart, 60)),
       pct_change_24h |-> R(1)],
      [timestamp |-> strftime(ClockStart)],
      [price |-> R(3)],
      [price |-> R(3), timestamp |-> <<>>],
      [price |-> R(3), timestamp |-> IsoStamp] }

price_of(asset, fetch, max_age_minutes) ==
    /\ \E r \in {get_current_price(asset, price_cache, clock, fetch, max_age_minutes)} :
        /\ call' = [fn |-> "get_current_price", asset |-> asset, fetch |-> fetch,
                    max_age_minutes |-> max_age_minutes, cache |-> price_cache,
                    now |-> clock, out |-> r.out, read |-> r.read,
                    fetched |-> r.fetched, saved |-> r.saved]
        /\ price_cache' = r.cache
        /\ clock' = r.now
    /\ UNCHANGED <<trades, ledger, proj_rows, proj, objects, running, form, uuids, data_files>>

\* time passes between two calls
Tick ==
    /\ total_seconds(clock, ClockStart) < MaxTicks * TickSeconds
    /\ clock' = timedelta_add(clock, TickSeconds)
    /\ UNCHANGED <<trades, call, ledger, proj_rows, proj, objects, running, form, uuids, data_files, price_cache>>

InitPricing ==
    /\ trades = <<>>
    /\ call = NoCall
    /\ ledger = <<>>
    /\ proj_rows = <<>>
    /\ proj = [ran |-> FALSE]
    /\ objects = <<>>
    /\ running = <<>>
    /\ form = <<>>
    /\ uuids = 0
    /\ data_files = <<>>
    /\ clock = ClockStart
    /\ \E held \in SUBSET {"BTC"} : price_cache \in [held -> StoredEntries]

NextPricing ==
    \/ \E asset \in PricedAssets, fetch \in Fetches, max_age_minutes \in AgeLimits :
          price_of(asset, fetch, max_age_minutes)
    \/ Tick

SpecPricing == InitPricing /\ [][NextPricing]_vars

-----------------------------------------------------------------------------
(* services/storage.py: load_users, save_users, add_user, delete_user.      *)
(* The users file holds the JSON object {"users": [...]}; the functions     *)
(* take the files on disk and return them as they leave them.               *)

\* config/constants.py line 15
USERS_FILE == "users.json"

AllUsernames == {"Default", "Alice", "alice", "a b", "a_b"}

UserFiles == {USERS_FILE} \cup {get_user_data_file(u) : u \in AllUsernames}

\* storage.py lines 27-36
load_users(files) ==
    IF files[USERS_FILE].exists
    THEN GetOr(files[USERS_FILE].content, "users", <<"Default">>)
    ELSE <<"Default">>

\* storage.py lines 39-42
save_users(files, users) == [files EXCEPT ![USERS_FILE] = FileOf([users |-> users])]

\* x in users
In(x, users) == \E i \in 1..Len(users) : users[i] = x

\* users.remove(x), for x in users: the list without the first x
list_remove(users, x) ==
    LET first == CHOOSE i \in 1..Len(users) :
                     users[i] = x /\ \A j \in 1..(i - 1) : users[j] # x
    IN  SubSeq(users, 1, first - 1) \o SubSeq(users, first + 1, Len(users))

\* Faulty variant: a name already in the list is added again.
add_user_again(files, username) ==
    [out |-> TRUE, files |-> save_users(files, Append(load_users(files), username))]

\* storage.py lines 45-52
add_user(files, username) ==
    IF In(username, load_users(files)) THEN [out |-> FALSE, files |-> files]
    ELSE [out |-> TRUE, files |-> save_users(files, Append(load_users(files), username))]

\* os.remove(path) of lines 63-67: OSError (removed = FALSE) leaves the file
remove_file(files, path, removed) ==
    IF files[path].exists /\ removed THEN [files EXCEPT ![path] = NoFile] ELSE files

\* storage.py lines 55-68
delete_user(files, username, removed) ==
    IF ~In(username, load_users(files)) \/ Len(load_users(files)) = 1
    THEN [out |-> FALSE, files |-> files]
    ELSE [out |-> TRUE,
          files |-> remove_file(save_users(files, list_remove(load_users(files), username)),
                                get_user_data_file(username), removed)]

\* the user list is never longer than MaxUsers
MaxUsers == 3

CallAddUser(username) ==
    /\ Len(load_users(data_files)) < MaxUsers
    /\ \E r \in {add_user(data_files, username)} :
        /\ call' = [fn |-> "add_user", username |-> username, files |-> data_files,
                    out |-> r.out]
        /\ data_files' = r.files
    /\ UNCHANGED <<trades, ledger, proj_rows, proj, objects, running, form, uuids, price_cache, clock>>

CallDeleteUser(username, removed) ==
    /\ \E r \in {delete_user(data_files, username, removed)} :
        /\ call' = [fn |-> "delete_user", username |-> username, files |-> data_files,
                    out |-> r.out]
        /\ data_files' = r.files
    /\ UNCHANGED <<trades, ledger, proj_rows, proj, objects, running, form, uuids, price_cache, clock>>

\* storage.py lines 252-256: save_data(data, username) for a user of the list
CallSaveData(username) ==
    /\ In(username, load_users(data_files))
    /\ call' = [fn |-> "save_data", username |-> username, files |-> data_files]
    /\ data_files' = [data_files EXCEPT ![get_user_data_file(username)] =
                          FileOf([trades |-> <<>>])]
    /\ UNCHANGED <<trades, ledger, proj_rows, proj, objects, running, form, uuids, price_cache, clock>>

\* user lists the application starts from: no users file, a users file without the
\* users key, or a non-empty list without duplicates
InitialUsers == { <<"Default">>, <<"Default", "Alice">>, <<"Alice", "a b">> }

InitUsers ==
    /\ trades = <<>>
    /\ call = NoCall
    /\ ledger = <<>>
    /\ proj_rows = <<>>
    /\ proj = [ran |-> FALSE]
    /\ objects = <<>>
    /\ running = <<>>
    /\ form = <<>>
    /\ uuids = 0
    /\ price_cache = <<>>
    /\ clock = <<>>
    /\ \E users_file \in {NoFile, FileOf(<<>>)} \cup {FileOf([users |-> l]) : l \in InitialUsers} :
          data_files = [f \in UserFiles |-> IF f = USERS_FILE THEN users_file ELSE NoFile]

NextUsers ==
    \/ \E username \in AllUsernames : CallAddUser(username)
    \/ \E username \in AllUsernames, removed \in BOOLEAN : CallDeleteUser(username, removed)
    \/ \E username \in AllUsernames : CallSaveData(username)

SpecUsers == InitUsers /\ [][NextUsers]_vars

(* The ledger as the windows of the application change it: the entry form,   *)
(* the edit dialog and the delete command, without imports.                  *)
NextWindows ==
    \/ NextEntry
    \/ \E i \in 1..MaxLedger : delete_trade(i)

SpecWindows == InitLedger /\ [][NextWindows]_vars

-----------------------------------------------------------------------------
(* Claims.                                                                  *)

Called == call.fn # "none"
CostBasisCalled == call.fn \in Methods
MetricsCalled == call.fn = "metrics"

\* the result the function of `call` gives on another list
SameCallOn(trade_list) ==
    IF call.fn = "fifo" THEN calculate_cost_basis_fifo(trade_list, call.asset)
    ELSE IF call.fn = "lifo" THEN calculate_cost_basis_lifo(trade_list, call.asset)
    ELSE IF call.fn = "average" THEN calculate_cost_basis_average(trade_list, call.asset)
    ELSE compute_portfolio_metrics(trade_list, call.method, call.prices).out

\* C1: compute_portfolio_metrics on an empty list returns the all-zero snapshot
\* (per_asset = {}, every total 0, roi_on_cost_pct = None) for every method and
\* price lookup, and does not call the price lookup.
C1_EmptyIsZeroSnapshot ==
    (MetricsCalled /\ trades = <<>>) =>
        /\ call.out.exc = "none"
        /\ DOMAIN call.out.per_asset = {}
        /\ call.out.usd_balance = Zero
        /\ call.out.total_value = Zero
        /\ call.out.total_external_cash = Zero
        /\ call.out.total_cost_basis_assets = Zero
        /\ call.out.realized_pnl = Zero
        /\ call.out.unrealized_pnl = Zero
        /\ call.out.total_pnl = Zero
        /\ call.out.roi_pct = Zero
        /\ call.out.roi_on_cost_pct = None
        /\ call.calls = <<>>

C1_Witness ==
    /\ MetricsCalled /\ trades = <<>>
    /\ call.method = "lifo" /\ call.prices["BTC"] = R(2)

\* quantity bought or transferred in minus quantity sold, over the trades of `asset`
NetQuantity(trade_list, asset) ==
    LET Signed(t) == IF AssetOf(t) # asset THEN Zero
                     ELSE IF IsBuyLike(t) THEN t.quantity
                     ELSE IF IsSell(t) THEN RSub(Zero, t.quantity)
                     ELSE Zero
    IN  Sum([ix \in 1..Len(trade_list) |-> Signed(trade_list[ix])])

\* a single BUY followed, at a later date, by a single smaller SELL
SimpleHistory ==
    /\ Len(trades) = 2
    /\ trades[1].type = "BUY" /\ trades[2].type = "SELL"
    /\ StrLt(trades[1].date, trades[2].date)
    /\ RLt(trades[2].quantity, trades[1].quantity)

\* C2: on a single BUY followed by a single smaller SELL, FIFO, LIFO and Average
\* return the same cost_basis and units_held, and compute_portfolio_metrics reports
\* the same realized_pnl for the asset under the three methods.
C2_MethodsAgreeOnSimpleHistory ==
    /\ (CostBasisCalled /\ SimpleHistory) =>
          \A m \in Methods :
              /\ cost_basis_by(m, trades, call.asset).total_cost = call.out.total_cost
              /\ cost_basis_by(m, trades, call.asset).units_held = call.out.units_held
    /\ (MetricsCalled /\ SimpleHistory) =>
          \A m \in Methods :
              compute_portfolio_metrics(trades, m, call.prices).out.per_asset["BTC"].realized_pnl
                  = call.out.per_asset["BTC"].realized_pnl

\* C3: under each method units_held is the sum of the BUY and Transfer quantities
\* minus the sum of the SELL quantities of the asset.
C3_UnitsConservation ==
    CostBasisCalled => call.out.units_held = NetQuantity(trades, call.asset)

\* at every prefix in date order the quantity sold does not exceed the quantity acquired
NeverOversold(sorted, asset) ==
    \A k \in 1..Len(sorted) : RGe(NetQuantity(SubSeq(sorted, 1, k), asset), Zero)

PriceMissing(price) == price = None \/ (price # None /\ RLe(price, Zero))

\* C5: when the price lookup gives None or a value <= 0 for an asset, the asset's
\* current_value is its cost_basis and its unrealized_pnl is 0, whatever its
\* units_held and holding_qty, and the call returns a snapshot.
C5_FallbackValuation ==
    MetricsCalled =>
        /\ (\E i \in 1..Len(call.calls) : PriceMissing(call.prices[call.calls[i]]))
              => call.out.exc = "none"
        /\ call.out.exc = "none" =>
              \A a \in DOMAIN call.out.per_asset :
                  PriceMissing(call.prices[a]) =>
                      /\ call.out.per_asset[a].current_value = call.out.per_asset[a].cost_basis
                      /\ call.out.per_asset[a].unrealized_pnl = Zero

C5_Witness ==
    /\ MetricsCalled /\ call.out.exc = "none"
    /\ "BTC" \in DOMAIN call.out.per_asset
    /\ call.prices["BTC"] = Zero
    /\ call.out.per_asset["BTC"].units_held = R(2)
    /\ call.out.per_asset["BTC"].holding_qty = R(1)
    /\ call.out.per_asset["BTC"].current_value = R(6)

\* the real trades and the synthesized trades of the combined list of the last projection
ProjReal == SubSeq(proj.trades, 1, proj.n_real)
ProjSynthetic == SubSeq(proj.trades, proj.n_real + 1, Len(proj.trades))

\* C6: run_projection_from_table leaves self.data["trades"] as it was (same length,
\* same order, every record equal field for field); the synthesized trades are only
\* in the combined list handed to compute_portfolio_metrics, after the real trades.
C6_ProjectionLeavesLedgerUnchanged ==
    proj.ran =>
        /\ ledger = proj.before
        /\ ProjReal = ledger
        /\ \A i \in 1..Len(ProjSynthetic) : \A j \in 1..Len(ledger) :
              ProjSynthetic[i] # ledger[j]

C6_Witness ==
    /\ proj.ran
    /\ Len(ledger) = 2
    /\ Len(ProjSynthetic) = 1
    /\ Len(proj_rows) = 2
    /\ proj.metrics.exc = "none"

\* the timestamp a date string denotes, for the strings that denote one
HasTimestamp(t) == "date" \in DOMAIN t /\ strptime(t.date).exc = "none"
Timestamp(t) == strptime(t.date).value

\* C7: every synthesized trade is dated strictly after every real trade, the
\* synthesized dates strictly increase in row order, and so the date-sorted replay
\* processes the real trades first and then the synthesized trades in row order.
C7_SyntheticAfterReal ==
    proj.ran =>
        /\ \A i \in 1..Len(ProjSynthetic) : \A j \in 1..Len(ProjReal) :
              HasTimestamp(ProjReal[j]) =>
                  DtLt(Timestamp(ProjReal[j]), Timestamp(ProjSynthetic[i]))
        /\ \A i, j \in 1..Len(ProjSynthetic) :
              i < j => DtLt(Timestamp(ProjSynthetic[i]), Timestamp(ProjSynthetic[j]))
        /\ SortByDate(proj.trades) = SortByDate(ProjReal) \o ProjSynthetic

DistinctDates(trade_list) ==
    \A i, j \in 1..Len(trade_list) :
        /\ "date" \in DOMAIN trade_list[i]
        /\ i # j => trade_list[i].date # trade_list[j].date

PermutationsOf(trade_list) ==
    { [i \in 1..Len(trade_list) |-> trade_list[f[i]]] :
        f \in Permutations(1..Len(trade_list)) }

\* the trades of a list with pairwise distinct dates, in date order
InDateOrder(trade_list) ==
    CHOOSE q \in PermutationsOf(trade_list) :
        \A i, j \in 1..Len(q) : i < j => StrLt(q[i].date, q[j].date)

\* C8: for a trade list with pairwise distinct dates, given in any order, each
\* cost-basis function and compute_portfolio_metrics return what they return for
\* the same trades in date order. (The lists of SpecOrder are the sets of trades
\* in every order, so this covers every permutation of every list.)
C8_OrderIndependent ==
    (Called /\ DistinctDates(trades)) => SameCallOn(InDateOrder(trades)) = call.out

C8_Witness ==
    /\ call.fn = "fifo" /\ Len(trades) = 3
    /\ trades[1].type = "SELL" /\ StrLt(trades[2].date, trades[1].date)
    /\ StrLt(trades[3].date, trades[2].date)
    /\ trades[3].quantity = R(3)
    /\ call.out.total_cost = Rat(25, 3)

\* every trade is a well-formed record from which keys may have been dropped
OnlyKeysMissing ==
    \A i \in 1..Len(trades) :
        "quantity" \in DOMAIN trades[i] => RGt(trades[i].quantity, Zero)

\* C9: compute_portfolio_metrics returns a snapshot for every non-empty list in which
\* any of the keys asset, type, date, quantity, price, fee, total_value, id is missing
\* from any trade.
C9_NoRaiseOnMissingKeys ==
    (MetricsCalled /\ trades # <<>> /\ OnlyKeysMissing) => call.out.exc = "none"

\* the last trade x has a quantity <= 0 and the list before it holds a trade of x's asset
NonPositiveLast ==
    /\ Len(trades) >= 2
    /\ \A i \in 1..Len(trades) : DOMAIN trades[i] = Fields
    /\ RLe(Last(trades).quantity, Zero)
    /\ \E i \in 1..(Len(trades) - 1) : trades[i].asset = Last(trades).asset

\* C10: adding a trade with quantity <= 0 to a list holding another trade of the same
\* asset changes neither the cost basis, nor units_held, nor the portfolio metrics.
C10_NonPositiveQuantityNoOp ==
    (Called /\ NonPositiveLast) => call.out = SameCallOn(Front(trades))

\* the stored value of a numeric field, 0 when the record has none
Stored(t, k) == GetOr(t, k, Zero)

\* net USD deposits, minus what the non-USD BUYs cost, plus what the non-USD SELLs
\* brought in, all taken from the stored total_value and fee
StoredCashFlow(trade_list) ==
    LET Flow(t) ==
            IF AssetOf(t) = "USD"
            THEN IF TypeOf(t) = "Deposit" THEN Stored(t, "quantity")
                 ELSE IF TypeOf(t) = "Withdrawal" THEN RSub(Zero, Stored(t, "quantity"))
                 ELSE Zero
            ELSE IF TypeOf(t) = "BUY"
                 THEN RSub(Zero, RAdd(Stored(t, "total_value"), Stored(t, "fee")))
                 ELSE IF TypeOf(t) = "SELL"
                      THEN RSub(Stored(t, "total_value"), Stored(t, "fee"))
                      ELSE Zero
    IN  Sum([ix \in 1..Len(trade_list) |-> Flow(trade_list[ix])])

\* every trade carries every field
AllFieldsStored == \A i \in 1..Len(trades) : DOMAIN trades[i] = Fields

\* C11: the usd_balance of a snapshot is the net USD deposits minus (total_value + fee)
\* of every non-USD BUY plus (total_value - fee) of every non-USD SELL, with the stored
\* total_value taken as given and never re-derived from price and quantity; Transfer
\* and Holding trades do not change it.
C11_UsdBalanceFromStoredValues ==
    (MetricsCalled /\ call.out.exc = "none" /\ AllFieldsStored)
        => call.out.usd_balance = StoredCashFlow(trades)

\* C12: in a snapshot on a non-empty list roi_pct is total_pnl / total_external_cash
\* * 100 when total_external_cash > 0 and 0 otherwise, and roi_on_cost_pct is total_pnl
\* / total_cost_basis_assets * 100 when total_cost_basis_assets > 0 and None otherwise.
C12_RoiFallbackSwitch ==
    (MetricsCalled /\ trades # <<>> /\ call.out.exc = "none") =>
        LET snap == call.out
        IN  /\ RGt(snap.total_external_cash, Zero) =>
                    snap.roi_pct = RMul(RDiv(snap.total_pnl, snap.total_external_cash), Hundred)
            /\ ~RGt(snap.total_external_cash, Zero) => snap.roi_pct = Zero
            /\ RGt(snap.total_cost_basis_assets, Zero) =>
                    snap.roi_on_cost_pct =
                        RMul(RDiv(snap.total_pnl, snap.total_cost_basis_assets), Hundred)
            /\ ~RGt(snap.total_cost_basis_assets, Zero) => snap.roi_on_cost_pct = None

\* nothing deposited, assets held at a gain: roi_pct is 0 and roi_on_cost_pct is set
C12_Witness ==
    /\ MetricsCalled
    /\ trades # <<>>
    /\ call.out.exc = "none"
    /\ call.out.total_external_cash = Zero
    /\ RGt(call.out.total_cost_basis_assets, Zero)
    /\ call.out.total_pnl # Zero
    /\ call.out.roi_pct = Zero
    /\ call.out.roi_on_cost_pct # None

RealizedCalled == call.fn = "realized" /\ call.out.exc = "none"

\* C13: the map returned by compute_realized_pnl_per_trade has a key for a trade id
\* only if that trade is a SELL of a non-USD asset; BUY, Transfer, Holding, Deposit and
\* Withdrawal trades and every trade of USD (SELL included) get no entry.
C13_EntriesOnlyForCryptoSells ==
    RealizedCalled =>
        \A i \in 1..Len(trades) :
            trades[i].id \in DOMAIN call.out.value
                => (TypeOf(trades[i]) = "SELL" /\ AssetOf(trades[i]) # "USD")

\* the result the call p returns when it runs alone on the caller's list
Alone(p) ==
    IF running[p].fn = "fifo" THEN calculate_cost_basis_fifo(trades, running[p].asset)
    ELSE IF running[p].fn = "lifo" THEN calculate_cost_basis_lifo(trades, running[p].asset)
    ELSE IF running[p].fn = "average"
    THEN calculate_cost_basis_average(trades, running[p].asset)
    ELSE compute_portfolio_metrics(trades, "fifo", NoPrices).out

\* C14: two calls of the core over the same trade list, interleaved step by step in
\* any order while no caller mutates the list, each return the result they return
\* alone, and no trade record of the list is written.
C14_InterleavedCallsAsAlone ==
    /\ \A p \in Calls : running[p].pc = "done" => running[p].out = Alone(p)
    /\ \A i \in 1..Len(trades) : objects[i] = trades[i]

\* both calls returned; their lot dicts were created in turns, and one of the
\* replays reduced a lot in place
C14_Witness ==
    /\ \A p \in Calls : running[p].pc = "done"
    /\ running[1].fn = "fifo"
    /\ running[2].fn = "lifo"
    /\ \E a \in 1..Len(objects), b \in 1..Len(objects), c \in 1..Len(objects) :
          /\ a < b /\ b < c
          /\ \E x \in 1..Len(running[1].lots) : running[1].lots[x] = c
          /\ \E y \in 1..Len(running[2].lots) : running[2].lots[y] = b
          /\ a > Len(trades)
          /\ \A x \in 1..Len(running[1].lots) : running[1].lots[x] # a
          /\ \A y \in 1..Len(running[2].lots) : running[2].lots[y] # a
    /\ running[1].out.lots = <<NewLot(trades[2], R(1), Rat(7, 2))>>
    /\ running[2].out.lots = <<NewLot(trades[1], R(1), Rat(7, 2))>>

\* the list is one BUY with quantity > 0 and total_value + fee > 0
SingleBuy ==
    /\ Len(trades) = 1
    /\ TypeOf(trades[1]) = "BUY"
    /\ RGt(trades[1].quantity, Zero)
    /\ RGt(ValuePlusFee(trades[1]), Zero)

\* C15: on a history that is a single BUY with quantity > 0 and total_value + fee > 0
\* the FIFO, the LIFO and the Average replay return cost_basis = total_value + fee and
\* units_held = quantity, and the FIFO result holds exactly one lot.
C15_SingleBuy ==
    (CostBasisCalled /\ SingleBuy /\ call.asset = AssetOf(trades[1])) =>
        /\ call.out.exc = "none"
        /\ call.out.total_cost = RAdd(trades[1].total_value, trades[1].fee)
        /\ call.out.units_held = trades[1].quantity
        /\ call.fn = "fifo" => Len(call.out.lots) = 1

\* BUY of 3 units for 6 with a fee of 1, replayed by FIFO
C15_Witness ==
    /\ call.fn = "fifo"
    /\ SingleBuy
    /\ trades[1].fee = R(1)
    /\ call.out.total_cost = R(7)
    /\ call.out.units_held = R(3)
    /\ Len(call.out.lots) = 1

\* C16: no two trades of the ledger have the same id, in every state reached from the
\* empty ledger through add_trade, saving an edit, delete_trade and import_trades.
C16_UniqueTradeIds ==
    \A i \in 1..Len(ledger), j \in 1..Len(ledger) :
        (i # j /\ "id" \in DOMAIN ledger[i] /\ "id" \in DOMAIN ledger[j])
            => ledger[i].id # ledger[j].id

\* a trade is stored with the asset USD exactly when its type is Deposit or Withdrawal
AssetTypeRule(t) ==
    (AssetOf(t) = "USD") <=> (TypeOf(t) \in {"Deposit", "Withdrawal"})

\* C17: every trade of the ledger has type Deposit or Withdrawal if and only if its
\* asset is USD, and type BUY, SELL, Holding or Transfer if and only if its asset is
\* not USD, in every state reached through the add-trade form and saved edits.
C17_AssetTypeRule ==
    \A i \in 1..Len(ledger) :
        /\ AssetTypeRule(ledger[i])
        /\ TypeOf(ledger[i]) \in {"Deposit", "Withdrawal", "BUY", "SELL", "Holding", "Transfer"}

\* C18: whenever load_portfolio(username) returns, the dict it returns holds
\* the keys trades, settings, accounts and account_groups, both when no data
\* file exists and when the data file holds any JSON object.
C18_LoadedKeys ==
    (call.fn = "load_portfolio" /\ call.out.exc = "none")
        => {"trades", "settings", "accounts", "account_groups"} \subseteq DOMAIN call.out.value

\* The lots of a list in the order a SELL reaches them: oldest first under FIFO,
\* newest first under LIFO.
Backwards(lots) == [i \in 1..Len(lots) |-> lots[Len(lots) + 1 - i]]
InSellOrder(method, lots) == IF method = "fifo" THEN lots ELSE Backwards(lots)

\* quantity and cost of the first j lots
QtyOfFirst(lots, j) == Sum([i \in 1..j |-> lots[i].quantity])
CostOfFirst(lots, j) == Sum([i \in 1..j |-> RMul(lots[i].quantity, lots[i].cost_per_unit)])

\* how many lots a SELL of sell_qty removes entirely: the longest prefix whose
\* quantity is at most sell_qty
RemovedWhole(lots, sell_qty) ==
    LET fits == {j \in 0..Len(lots) : j = 0 \/ RLe(QtyOfFirst(lots, j), sell_qty)}
    IN  CHOOSE j \in fits : \A i \in fits : i <= j

\* what a SELL of sell_qty leaves of the lots, given in the order it reaches them
LotsAfterSell(lots, sell_qty) ==
    LET j == RemovedWhole(lots, sell_qty)
        left == RSub(sell_qty, QtyOfFirst(lots, j))
    IN  IF j = Len(lots) THEN <<>>
        ELSE IF RGt(left, Zero)
             THEN <<[lots[j + 1] EXCEPT !.quantity = RSub(@, left)]>>
                  \o SubSeq(lots, j + 2, Len(lots))
             ELSE SubSeq(lots, j + 1, Len(lots))

CostAfterSell(lots, total_cost, sell_qty) ==
    LET j == RemovedWhole(lots, sell_qty)
        left == RSub(sell_qty, QtyOfFirst(lots, j))
    IN  IF j < Len(lots) /\ RGt(left, Zero)
        THEN RSub(RSub(total_cost, CostOfFirst(lots, j)), RMul(left, lots[j + 1].cost_per_unit))
        ELSE RSub(total_cost, CostOfFirst(lots, j))

\* the k-th trade of the replay is a SELL and it took the lots as stated
SellTakesLots(method, sorted, k) ==
    LET before == run_loop(method, sorted, k - 1)
        after == run_loop(method, sorted, k)
        sell_qty == OrZero(Get(sorted[k], "quantity"))
        reached == InSellOrder(method, before.lots)
    IN  /\ InSellOrder(method, after.lots) = LotsAfterSell(reached, sell_qty)
        /\ after.total_cost = CostAfterSell(reached, before.total_cost, sell_qty)
        /\ after.units_held = RSub(before.units_held, sell_qty)

\* the lots pushed by a replay of the sorted trades
PushesLot(t) ==
    /\ IsBuyLike(t)
    /\ RGt(OrZero(Get(t, "quantity")), Zero)
    /\ RGt(ValuePlusFee(t), Zero)

Pushed(sorted) ==
    LET buys == SelectSeq(sorted, PushesLot)
    IN  [i \in 1..Len(buys) |->
            NewLot(buys[i], buys[i].quantity, RDiv(ValuePlusFee(buys[i]), buys[i].quantity))]

\* lots are the last lots of pushed, in the same order, the first possibly reduced
SuffixFirstReduced(lots, pushed) ==
    /\ Len(lots) <= Len(pushed)
    /\ \A i \in 1..Len(lots) :
        LET p == pushed[Len(pushed) - Len(lots) + i]
        IN  IF i = 1
            THEN /\ lots[1] = [p EXCEPT !.quantity = lots[1].quantity]
                 /\ RGt(lots[1].quantity, Zero)
                 /\ RLe(lots[1].quantity, p.quantity)
            ELSE lots[i] = p
    /\ \A i \in 1..Len(lots) - 1 : StrLe(lots[i].date, lots[i + 1].date)

\* C19: in the FIFO and LIFO replays every SELL takes quantity from the oldest
\* (FIFO) or newest (LIFO) remaining lot first, removes a lot whose quantity is at
\* most the remaining sell quantity and subtracts quantity x cost_per_unit,
\* otherwise reduces only that lot, and touches no other lot; after a FIFO replay
\* the remaining lots are a suffix, in date order, of the lots pushed, with at
\* most the first of them reduced.
C19_SellLotOrder ==
    (call.fn \in {"fifo", "lifo"}) =>
        LET sorted == asset_trades_sorted(trades, call.asset)
        IN  /\ call.out = run_loop(call.fn, sorted, Len(sorted))
            /\ \A k \in 1..Len(sorted) : IsSell(sorted[k]) => SellTakesLots(call.fn, sorted, k)
            /\ call.fn = "fifo" => SuffixFirstReduced(call.out.lots, Pushed(sorted))

\* a FIFO replay whose SELL removed the oldest lot and reduced the next one
C19_Witness ==
    /\ call.fn = "fifo"
    /\ Len(trades) = 3
    /\ IsSell(trades[3])
    /\ Len(Pushed(trades)) = 2
    /\ Len(call.out.lots) = 1
    /\ call.out.lots[1].trade_id = Id(2)
    /\ RLt(call.out.lots[1].quantity, trades[2].quantity)

\* the k-th trade of the Average replay is a SELL of s with u units before it:
\* total_cost becomes (u - s) x (total_cost / u) when u - s > 0 and 0 otherwise,
\* units_held becomes u - s, and nothing is raised
AverageSell(sorted, k) ==
    LET before == run_loop("average", sorted, k - 1)
        after == run_loop("average", sorted, k)
        s == OrZero(Get(sorted[k], "quantity"))
        u == before.units_held
    IN  /\ after.exc = "none"
        /\ after.units_held = RSub(u, s)
        /\ after.total_cost = IF RGt(RSub(u, s), Zero)
                              THEN RMul(RSub(u, s), RDiv(before.total_cost, u))
                              ELSE Zero

\* C20: in the Average replay a SELL of quantity s with u units before the sale
\* sets total_cost to (u - s) x (total_cost / u) when u - s > 0 and to 0 when
\* u - s <= 0, units_held becomes u - s, and no division by zero occurs.
C20_AverageSell ==
    (call.fn = "average") =>
        LET sorted == asset_trades_sorted(trades, call.asset)
        IN  /\ call.out.exc = "none"
            /\ \A k \in 1..Len(sorted) : IsSell(sorted[k]) => AverageSell(sorted, k)

\* the k-th trade of the date-ordered replay, with u units and cost basis c of
\* its asset before it, is handled as stated: a BUY or Transfer adds quantity and
\* total_value + fee; a SELL with u <= 0 realizes 0 and changes no state; any other
\* SELL realizes price x sold - (c / u) x sold - fee for sold = min(quantity, u)
\* and takes sold and (c / u) x sold off the state
RealizedAsStated(sorted, k) ==
    LET before == realized_loop(sorted, k - 1)
        after == realized_loop(sorted, k)
        t == sorted[k]
        u == GetOr(before.units, t.asset, Zero)
        c == GetOr(before.cost_basis, t.asset, Zero)
        sold == IF RLe(t.quantity, u) THEN t.quantity ELSE u
        cost_of_sold == RMul(RDiv(c, u), sold)
    IN  IF t.asset = "USD" THEN TRUE
        ELSE IF t.type \in {"BUY", "Transfer"}
        THEN /\ after.units[t.asset] = RAdd(u, t.quantity)
             /\ after.cost_basis[t.asset] = RAdd(c, RAdd(t.total_value, t.fee))
             /\ after.result = before.result
        ELSE IF t.type # "SELL" THEN TRUE
        ELSE IF RLe(u, Zero)
        THEN /\ after.result[t.id] = Zero
             /\ after.units = before.units
             /\ after.cost_basis = before.cost_basis
        ELSE /\ after.result[t.id] = RSub(RSub(RMul(t.price, sold), cost_of_sold), t.fee)
             /\ after.units[t.asset] = RSub(u, sold)
             /\ after.cost_basis[t.asset] = RSub(c, cost_of_sold)

\* C21: compute_realized_pnl_per_trade replays the trades in date order with a
\* running (units, cost_basis) per asset; each non-USD SELL realizes 0 when units
\* <= 0 (state unchanged), otherwise price x sold - cost_of_sold - fee with sold =
\* min(quantity, units) and cost_of_sold = (cost_basis / units) x sold, and units
\* and cost_basis drop by sold and cost_of_sold; BUY and Transfer add quantity and
\* total_value + fee. The value returned for a SELL is the one its step realized.
C21_RealizedPerSell ==
    (call.fn = "realized" /\ call.out.exc = "none") =>
        LET sorted == SortByDate(trades)
        IN  \A k \in 1..Len(sorted) :
                /\ RealizedAsStated(sorted, k)
                /\ (sorted[k].type = "SELL" /\ sorted[k].asset # "USD") =>
                       call.out.value[sorted[k].id] = realized_loop(sorted, k).result[sorted[k].id]

\* a SELL of 2 ETH at 5 with 1 ETH held at cost 4: sold = 1, realized = 5 - 4 = 1
C21_Witness ==
    /\ call.fn = "realized"
    /\ Len(trades) >= 2
    /\ trades[1].asset = "ETH" /\ trades[1].type = "Transfer"
    /\ trades[2].asset = "ETH" /\ trades[2].type = "SELL"
    /\ RGt(trades[2].quantity, trades[1].quantity)
    /\ call.out.value[trades[2].id] = R(1)

\* the sum of the per-trade realized P&L over the SELL trades of an asset
RealizedOfSells(trade_list, realized, asset) ==
    LET Sells(t) == t.asset = asset /\ t.type = "SELL"
        sells == SelectSeq(trade_list, Sells)
    IN  Sum([i \in 1..Len(sells) |-> realized[sells[i].id]])

\* every trade stores total_value = price x quantity
ValueIsPriceTimesQuantity(trade_list) ==
    \A i \in 1..Len(trade_list) :
        trade_list[i].total_value = RMul(trade_list[i].price, trade_list[i].quantity)

\* C22: for each method and every history of an asset that never sells more than
\* is held and whose trades have total_value = price x quantity, the sum over the
\* asset's SELL trades of compute_realized_pnl_per_trade(trades, method) equals the
\* realized_pnl that compute_portfolio_metrics(trades, method, ...) reports for it.
C22_PerTradeMatchesAggregate ==
    (/\ call.fn = "update_dashboard"
     /\ trades # <<>>
     /\ NeverOversold(SortByDate(trades), "BTC")
     /\ ValueIsPriceTimesQuantity(trades)) =>
        /\ call.realized_pnl.exc = "none"
        /\ call.metrics.exc = "none"
        /\ RealizedOfSells(trades, call.realized_pnl.value, "BTC")
               = call.metrics.per_asset["BTC"].realized_pnl

\* the list without its i-th trade
WithoutTrade(trade_list, i) ==
    SubSeq(trade_list, 1, i - 1) \o SubSeq(trade_list, i + 1, Len(trade_list))

\* the positions of the Holding trades of an asset
HoldingsOf(trade_list, asset) ==
    {i \in 1..Len(trade_list) :
        trade_list[i].asset = asset /\ trade_list[i].type = "Holding"}

\* the figures the cost-basis engine contributes to an asset's entry; an asset
\* without trades has no entry and no cost basis, units or realized P&L
EngineFigures(snapshot, asset) ==
    IF asset \in DOMAIN snapshot.per_asset
    THEN [cost_basis |-> snapshot.per_asset[asset].cost_basis,
          units_held |-> snapshot.per_asset[asset].units_held,
          realized_pnl |-> snapshot.per_asset[asset].realized_pnl]
    ELSE [cost_basis |-> Zero, units_held |-> Zero, realized_pnl |-> Zero]

HoldingQtyOf(snapshot, asset) ==
    IF asset \in DOMAIN snapshot.per_asset THEN snapshot.per_asset[asset].holding_qty
    ELSE Zero

\* the metrics call in `call` agrees, for the Holding trade at position i, with the
\* same call on the list without that trade
HoldingOnlyParks(i) ==
    LET asset == trades[i].asset
        without == compute_portfolio_metrics(WithoutTrade(trades, i), call.method,
                                             call.prices).out
    IN  /\ EngineFigures(call.out, asset) = EngineFigures(without, asset)
        /\ HoldingQtyOf(call.out, asset) = RAdd(HoldingQtyOf(without, asset), trades[i].quantity)

\* the valuation of an asset's entry
ValuedWithHoldings(entry, price, only_holdings) ==
    /\ (price # None /\ RGt(price, Zero)) =>
           entry.current_value = RMul(RAdd(entry.units_held, entry.holding_qty), price)
    /\ only_holdings =>
           /\ entry.units_held = Zero
           /\ price = None => entry.current_value = Zero

\* C23: adding a Holding trade of an asset to a trade list leaves the asset's
\* cost_basis, units_held, lots and realized_pnl unchanged under every method and
\* raises holding_qty by its quantity; with a price > 0 current_value is
\* (units_held + holding_qty) x price, and an asset with Holding trades only has
\* units_held = 0 and current_value = holding_qty x price, or 0 without a price.
C23_HoldingOnlyValued ==
    /\ CostBasisCalled =>
           \A i \in HoldingsOf(trades, call.asset) :
               call.out = cost_basis_by(call.fn, WithoutTrade(trades, i), call.asset)
    /\ (MetricsCalled /\ call.out.exc = "none") =>
           \A asset \in {"BTC", "ETH"} :
               /\ \A i \in HoldingsOf(trades, asset) : HoldingOnlyParks(i)
               /\ asset \in DOMAIN call.out.per_asset =>
                      ValuedWithHoldings(
                          call.out.per_asset[asset], call.prices[asset],
                          \A j \in 1..Len(trades) :
                              trades[j].asset = asset => trades[j].type = "Holding")

\* the claim's example: a Holding of 0.5 and nothing else, priced at 5
C23_Witness ==
    /\ MetricsCalled
    /\ Len(trades) = 1
    /\ trades[1].type = "Holding" /\ trades[1].quantity = Rat(1, 2)
    /\ call.prices["ETH"] = R(5)
    /\ call.out.per_asset["ETH"].units_held = Zero
    /\ call.out.per_asset["ETH"].holding_qty = Rat(1, 2)
    /\ call.out.per_asset["ETH"].current_value = Rat(5, 2)

\* max(0, BUY + Transfer - SELL - Holding quantities) of an asset
StatedAvailable(trade_list, asset) ==
    LET Signed(t) == IF t.asset # asset THEN Zero
                     ELSE IF t.type \in {"BUY", "Transfer"} THEN t.quantity
                     ELSE IF t.type \in {"SELL", "Holding"} THEN RSub(Zero, t.quantity)
                     ELSE Zero
        net == Sum([i \in 1..Len(trade_list) |-> Signed(trade_list[i])])
    IN  IF RGt(net, Zero) THEN net ELSE Zero

\* max(0, usd_balance)
StatedUsdAvailable(trade_list) ==
    LET usd_balance == compute_portfolio_metrics(trade_list, "average", NoPrices).out.usd_balance
    IN  IF RGt(usd_balance, Zero) THEN usd_balance ELSE Zero

\* the requests the ledger must refuse: a price or quantity <= 0 (an amount <= 0 for
\* a USD Deposit/Withdrawal), a SELL or Holding of more than is available, a USD
\* Withdrawal of more than the balance
MustReject(trade_list, asset, trade_type, price_str, qty_str) ==
    LET p == float_of(price_str)
        q == float_of(qty_str)
    IN  IF asset = "USD" /\ trade_type \in {"Deposit", "Withdrawal"}
        THEN /\ p.exc = "none"
             /\ \/ RLe(p.value, Zero)
                \/ trade_type = "Withdrawal" /\ RGt(p.value, StatedUsdAvailable(trade_list))
        ELSE /\ p.exc = "none" /\ q.exc = "none"
             /\ \/ RLe(p.value, Zero)
                \/ RLe(q.value, Zero)
                \/ /\ trade_type \in {"SELL", "Holding"}
                   /\ asset # "USD"
                   /\ RGt(q.value, StatedAvailable(trade_list, asset))

\* a step of add_trade with the given fields: a request that must be refused leaves
\* the ledger as it is, and any request leaves it as it is or appends one trade
AddTradeAsStated(price_str, qty_str, account_name) ==
    add_trade(price_str, qty_str, "Binance", "maker", account_name) =>
        /\ MustReject(ledger, form.asset_var, form.trade_type_var, price_str, qty_str) =>
               ledger' = ledger
        /\ \/ ledger' = ledger
           \/ /\ Len(ledger') = Len(ledger) + 1
              /\ SubSeq(ledger', 1, Len(ledger)) = ledger
              /\ ledger'[Len(ledger')].asset = form.asset_var
              /\ ledger'[Len(ledger')].type = form.trade_type_var

PriceCalled == call.fn = "get_current_price"

\* the cache handed to the call holds an entry of the asset whose timestamp is less
\* than max_age_minutes before the clock of the call
YoungEntry ==
    /\ call.asset \in DOMAIN call.cache
    /\ "timestamp" \in DOMAIN call.cache[call.asset]
    /\ \E dt \in {strptime(call.cache[call.asset].timestamp)} :
          dt.exc = "none" /\ total_seconds(call.now, dt.value) < 60 * call.max_age_minutes

AskedUsdc == call.asset \in {"USDC", "usdc"}

CacheTouched == price_cache # call.cache \/ call.saved # <<>>

\* C25: get_current_price changes the cache (and calls save_cache) only when the
\* asset has no entry younger than max_age_minutes and the fetch returned a price,
\* and then only the entry of that asset changes; a young entry is returned without
\* a fetch; a failed fetch returns None and leaves the cache as it was, stale entry
\* or not; USDC (in any letter case) returns 1.0 without reading or writing the
\* cache and without a fetch.
C25_CacheWrittenOnlyOnFetch ==
    PriceCalled =>
        /\ CacheTouched =>
              /\ ~AskedUsdc /\ ~YoungEntry /\ call.fetch[1] # None
              /\ call.saved = <<price_cache>>
              /\ DOMAIN price_cache = DOMAIN call.cache \cup {call.asset}
              /\ \A a \in DOMAIN call.cache \ {call.asset} : price_cache[a] = call.cache[a]
        /\ (~AskedUsdc /\ YoungEntry) =>
              ~call.fetched /\ call.out = Get(call.cache[call.asset], "price")
        /\ (~AskedUsdc /\ ~YoungEntry /\ call.fetch[1] = None) =>
              call.out = None /\ ~CacheTouched
        /\ AskedUsdc =>
              call.out = R(1) /\ ~call.read /\ ~call.fetched /\ ~CacheTouched

\* a failed fetch for an asset whose entry is exactly max_age_minutes old
C25_Witness ==
    /\ PriceCalled
    /\ call.asset = "BTC" /\ call.max_age_minutes = 5 /\ call.fetch[1] = None
    /\ call.asset \in DOMAIN call.cache
    /\ Get(call.cache["BTC"], "price") = R(3)
    /\ Get(call.cache["BTC"], "timestamp") = strftime(ClockStart)
    /\ total_seconds(call.now, ClockStart) = 300
    /\ call.out = None

\* the list has no name twice
DuplicateFree(users) ==
    \A i, j \in 1..Len(users) : users[i] = users[j] => i = j

\* C26: from a non-empty, duplicate-free user list, after any sequence of add_user
\* and delete_user calls the stored list is non-empty and duplicate-free; add_user
\* of a name in the list returns False and changes no file, delete_user of a name
\* not in the list or of the last user returns False and changes no file.
C26_UserListKept ==
    /\ load_users(data_files) # <<>>
    /\ DuplicateFree(load_users(data_files))
    /\ (call.fn = "add_user" /\ In(call.username, load_users(call.files))) =>
          call.out = FALSE /\ data_files = call.files
    /\ (call.fn = "delete_user"
        /\ (~In(call.username, load_users(call.files)) \/ Len(load_users(call.files)) = 1)) =>
          call.out = FALSE /\ data_files = call.files

\* the last remaining user was asked to be deleted, after users came and went
C26_Witness ==
    /\ call.fn = "delete_user"
    /\ load_users(call.files) = <<"alice">>
    /\ call.username = "alice"
    /\ call.out = FALSE

\* C30: a successful delete_user(u) removes only u's data: every other user v still
\* in the list whose data file existed before the call still has it after the call,
\* usernames that differ from u only in letter case or in spaces versus underscores
\* included.
C30_DeleteKeepsOtherUsersData ==
    (call.fn = "delete_user" /\ call.out) =>
        \A v \in AllUsernames \ {call.username} :
            (In(v, load_users(data_files)) /\ call.files[get_user_data_file(v)].exists)
                => data_files[get_user_data_file(v)].exists

\* the sum of the remaining lots' quantities, and of quantity x cost_per_unit
LotsQuantity(lots) == Sum([i \in 1..Len(lots) |-> lots[i].quantity])
LotsCost(lots) == Sum([i \in 1..Len(lots) |-> RMul(lots[i].quantity, lots[i].cost_per_unit)])

\* among the first k trades in date order, no SELL asked for more than the lots
\* held before it and every BUY/Transfer had a positive cost
Orderly(method, sorted, k) ==
    \A j \in 1..k :
        /\ IsSell(sorted[j]) =>
              RLe(OrZero(Get(sorted[j], "quantity")),
                  LotsQuantity(run_loop(method, sorted, j - 1).lots))
        /\ IsBuyLike(sorted[j]) => RGt(ValuePlusFee(sorted[j]), Zero)

\* the loop of the call, after its first k iterations
LoopAfter(k) == run_loop(call.fn, asset_trades_sorted(trades, call.asset), k)

\* C27: in the FIFO and LIFO replays, after every processed trade of any history,
\* total_cost is the sum over the remaining lots of quantity x cost_per_unit and
\* units_held is at most the sum of the remaining lots' quantities, equal to it as
\* long as no SELL exceeded the lots available and every BUY/Transfer had a
\* positive cost.
C27_LotsAccountForTotals ==
    call.fn \in {"fifo", "lifo"} =>
        \A k \in 0..Len(asset_trades_sorted(trades, call.asset)) :
            LoopAfter(k).exc = "none" =>
                /\ LoopAfter(k).total_cost = LotsCost(LoopAfter(k).lots)
                /\ RLe(LoopAfter(k).units_held, LotsQuantity(LoopAfter(k).lots))
                /\ Orderly(call.fn, asset_trades_sorted(trades, call.asset), k) =>
                      LoopAfter(k).units_held = LotsQuantity(LoopAfter(k).lots)

\* every BUY and SELL of the list stores a total_value other than 0
StoresTotalValue(trade_list) ==
    \A i \in 1..Len(trade_list) :
        TypeOf(trade_list[i]) \in {"BUY", "SELL"} =>
            Get(trade_list[i], "total_value") \notin {None, Zero}

\* total_value + fee summed over the Transfer trades of assets other than USD
TransferredIn(trade_list) ==
    Sum([i \in 1..Len(trade_list) |->
            IF TypeOf(trade_list[i]) = "Transfer" /\ AssetOf(trade_list[i]) # "USD"
            THEN ValuePlusFee(trade_list[i]) ELSE Zero])

\* C28: for a non-empty list whose BUY/SELL trades store a non-zero total_value,
\* every method and every price lookup, the snapshot satisfies total_value =
\* total_external_cash + total_pnl + (total_value + fee of the non-USD Transfer
\* trades); without Transfer trades, total_value = total_external_cash + total_pnl.
C28_AccountingIdentity ==
    (MetricsCalled /\ trades # <<>> /\ call.out.exc = "none" /\ StoresTotalValue(trades)) =>
        /\ call.out.total_value =
              RAdd(RAdd(call.out.total_external_cash, call.out.total_pnl),
                   TransferredIn(trades))
        /\ (\A i \in 1..Len(trades) : TypeOf(trades[i]) # "Transfer") =>
              call.out.total_value = RAdd(call.out.total_external_cash, call.out.total_pnl)

\* a portfolio with a deposit, a buy, a sale and a transfer in, valued at a price
C28_Witness ==
    /\ MetricsCalled /\ call.out.exc = "none" /\ StoresTotalValue(trades)
    /\ \E i \in 1..Len(trades) : TypeOf(trades[i]) = "Transfer"
    /\ \E i \in 1..Len(trades) : TypeOf(trades[i]) = "SELL"
    /\ \E i \in 1..Len(trades) : TypeOf(trades[i]) = "Deposit"
    /\ call.prices["BTC"] = R(2)
    /\ call.out.total_value # RAdd(call.out.total_external_cash, call.out.total_pnl)

\* BUY + Transfer quantities minus SELL + Holding quantities of an asset
NetPosition(trade_list, asset) ==
    LET Signed(t) == IF t.asset # asset THEN Zero
                     ELSE IF t.type \in {"BUY", "Transfer"} THEN t.quantity
                     ELSE IF t.type \in {"SELL", "Holding"} THEN RSub(Zero, t.quantity)
                     ELSE Zero
    IN  Sum([i \in 1..Len(trade_list) |-> Signed(trade_list[i])])

\* C29: in every ledger reachable from the empty ledger by add_trade, edit_trade
\* (save) and delete_trade, for every asset other than USD the BUY and Transfer
\* quantities minus the SELL and Holding quantities are >= 0.
C29_LedgerNeverOversold ==
    \A asset \in Elems(TRANSACTION_ASSETS) \ {"USD"} : RGe(NetPosition(ledger, asset), Zero)

====
